---- MODULE Spec2Model ----
(***************************************************************************)
(* Model of the learner side of the lesson application: the quiz step      *)
(* controller of LearnerLessonView (step index, per-step answer state,     *)
(* check / continue transitions), its blank-slot engine and the            *)
(* fill-in-blanks tokenizer parseFillInBlanks; and of the authoring side:  *)
(* validateActivity, lessonReducer, the draft editor and the views of the  *)
(* teacher dashboard with the persistence effect.                          *)
(*                                                                         *)
(* Specifications:                                                         *)
(*   Spec           the quiz controller, its handlers called directly      *)
(*   SpecUI         the quiz controller driven through its rendered        *)
(*                  controls only                                          *)
(*   SpecTokenizer  parseFillInBlanks applied to every bounded template    *)
(*   SpecValidator  validateActivity applied to every bounded draft        *)
(*   SpecReducer    lessonReducer under every bounded action sequence      *)
(*   SpecEditor     the handlers of the activity settings on a draft, new  *)
(*                  or of an edited activity                               *)
(*   SpecAttach     audio uploads interleaved with edits of the draft      *)
(*   SpecDashboard  the controls of the list, setup and builder views      *)
(*   SpecStore      the lessons of a session and the stored list           *)
(*   SpecPersist    the reducer and the persistence effect while time      *)
(*                  passes                                                 *)
(*   SpecPool       the rendered quiz controls on lessons whose word pool  *)
(*                  is short or repeats a word                             *)
(* The learner view and the dashboard are separate components: in a        *)
(* specification of one of them the variables of the other hold Null or    *)
(* their idle values; lastOp names the last operation in both.             *)
(*                                                                         *)
(* Strings that the code inspects character by character (templates and    *)
(* the words cut out of them) are sequences of one-character strings.      *)
(* Option texts and pair ids are only compared for equality and are atoms. *)
(* A JavaScript object is a function whose DOMAIN is the set of its keys,  *)
(* so  obj[k] === undefined  is  k \notin DOMAIN obj.                      *)
(*                                                                         *)
(* The handlers are modelled as the operations of the controller: each     *)
(* action is one handler call followed by the re-render and the effect     *)
(* that React runs before the next event.  They can be called in every     *)
(* state, also where the rendered control is disabled or absent.           *)
(***************************************************************************)
EXTENDS Integers, Sequences, FiniteSets, TLC

VARIABLES
    lessonData,      \* the lessonData prop, fixed at construction
    step,            \* useState(0)
    isAnswered,      \* useState(false)
    isCorrect,       \* useState(false)
    selectedAnswer,  \* useState(null)
    matchingState,   \* useState({})
    blanksState,     \* useState({}): blank index -> word
    availableWords,  \* useState([])
    clickedOption,   \* history: index of the option button whose click set selectedAnswer, 0 if none
    runtimeError,    \* history: an uncaught TypeError was raised by a render, an effect or a handler
    lastOp,          \* history: the operation called last
    pc,              \* position of a pure-function run: "idle", "input" or "output"
    templateArg,     \* the argument of parseFillInBlanks
    parseResult,     \* the value parseFillInBlanks returned
    tempActivity,    \* TeacherDashboard: useState(initialActivityData), the draft
    validationErrors,\* TeacherDashboard: useState([])
    lessonState,     \* TeacherDashboard: useReducer(lessonReducer, initialLessonState)
    clock,           \* the reading of Date.now() / new Date()
    added,           \* history: position of the activity the last ADD_ACTIVITY appended, while
                     \* only UPDATE_ACTIVITY actions with its id have followed; 0 otherwise
    isEditingActivity, \* TeacherDashboard: useState(false)
    store,           \* localStorage "darija-lessons", parsed: the list of saved lessons
    pending,         \* the audio uploads whose timer has not fired yet, in the order of their start
    lastAction,      \* history: the type of the action dispatched last
    removed          \* history: the number of activities the last dispatch removed

quizState == <<lessonData, step, isAnswered, isCorrect, selectedAnswer, matchingState,
               blanksState, availableWords, clickedOption, runtimeError>>

quizVars == <<quizState, lastOp>>

tokenizerVars == <<templateArg, parseResult>>

dashboardVars == <<isEditingActivity, store, pending>>

history == <<lastAction, removed>>

authoringVars == <<tempActivity, validationErrors, lessonState, clock, added,
                   dashboardVars, history>>

vars == <<quizVars, pc, tokenizerVars, authoringVars>>

ctrl == <<step, isAnswered, isCorrect, selectedAnswer, matchingState,
          blanksState, availableWords>>

-----------------------------------------------------------------------------
(* Bounds *)

MaxActivities == 2

\* The longest template given to the tokenizer
MaxTemplateLen == 5

\* The largest number of options of a draft
MaxOptions == 3

\* The largest number of items, and of pairs, of a draft
MaxItems == 3

\* The last reading of the clock
MaxClock == 2

\* The largest number of activities of the lesson being authored
MaxLessonActivities == 2

-----------------------------------------------------------------------------
(* Generic helpers *)

Min(S) == CHOOSE x \in S : \A y \in S : x <= y

Max(S) == CHOOSE x \in S : \A y \in S : x >= y

Null == "<null>"

EmptyObject == <<>>

\* [...arr].sort(() => Math.random() - 0.5): some rearrangement of arr
Shuffle(arr) ==
    LET n == Len(arr)
        P == { p \in [1..n -> 1..n] : \A i, j \in 1..n : p[i] = p[j] => i = j }
    IN  { [i \in 1..n |-> arr[p[i]]] : p \in P }

-----------------------------------------------------------------------------
(* parseFillInBlanks *)

IsLineTerminator(c) == c \in {"\n", "\r"}

IsWhiteSpace(c) == c \in {" ", "\t", "\n", "\r"}

\* String.prototype.trim
Trim(s) ==
    LET keep == { i \in 1..Len(s) : ~IsWhiteSpace(s[i]) }
    IN  IF keep = {} THEN <<>> ELSE SubSeq(s, Min(keep), Max(keep))

\* /\{.*?\}/ tried at position i (t[i] = "{"): the index of the closing brace, 0 if no match.
\* The lazy .*? stops at the first "}" and "." matches no line terminator.
MatchEnd(t, i) ==
    LET closes == { j \in (i + 1)..Len(t) : t[j] = "}" }
        j == IF closes = {} THEN 0 ELSE Min(closes)
    IN  IF j = 0 \/ (\E k \in (i + 1)..(j - 1) : IsLineTerminator(t[k])) THEN 0 ELSE j

\* The leftmost match of the regular expression at or after position from, 0 if none.
NextMatch(t, from) ==
    LET starts == { i \in from..Len(t) : t[i] = "{" /\ MatchEnd(t, i) # 0 }
    IN  IF starts = {} THEN 0 ELSE Min(starts)

\* template.split(/(\{.*?\})/g): the pieces between the matches and the matches themselves
RECURSIVE Split(_, _)
Split(t, from) ==
    LET i == NextMatch(t, from)
    IN  IF i = 0
        THEN << SubSeq(t, from, Len(t)) >>
        ELSE << SubSeq(t, from, i - 1), SubSeq(t, i, MatchEnd(t, i)) >>
             \o Split(t, MatchEnd(t, i) + 1)

NonEmpty(p) == Len(p) > 0

\* Mutant: the closing brace is not required
IsBlankPart_StartOnly(part) == part[1] = "{"

\* part.startsWith('{') && part.endsWith('}')
IsBlankPart(part) == part[1] = "{" /\ part[Len(part)] = "}"

\* parts.forEach(...): the tokens of parts[k..], the next blank being numbered blankIndex
RECURSIVE Tokens(_, _, _)
Tokens(parts, k, blankIndex) ==
    IF k > Len(parts) THEN <<>>
    ELSE IF IsBlankPart(parts[k])
         THEN << [blank |-> blankIndex,
                  correct |-> Trim(SubSeq(parts[k], 2, Len(parts[k]) - 1))] >>
              \o Tokens(parts, k + 1, blankIndex + 1)
         ELSE << [text |-> parts[k]] >> \o Tokens(parts, k + 1, blankIndex)

IsBlankToken(p) == "blank" \in DOMAIN p

parseFillInBlanks(template) ==
    IF template = <<>>
    THEN [sentenceTemplate |-> <<>>, correctWords |-> <<>>]
    ELSE LET parts == SelectSeq(Split(template, 1), NonEmpty)
             sentenceTemplate == Tokens(parts, 1, 0)
             blanks == SelectSeq(sentenceTemplate, IsBlankToken)
         IN  [sentenceTemplate |-> sentenceTemplate,
              correctWords |-> [i \in 1..Len(blanks) |-> blanks[i].correct]]

-----------------------------------------------------------------------------
(* Lesson documents *)

\* "a" and "A": two words that differ only in case
Wa == << "a" >>

WA == << "A" >>

\* "{a} {A}": two blanks separated by a literal space
TwoBlankTemplate == << "{", "a", "}", " ", "{", "A", "}" >>

\* An activity shaped like activity 1 of DUMMY_LESSON_DATA; two options carry the same text
MultipleChoice ==
    [type |-> "multiple-choice",
     options |-> << [text |-> "a", isCorrect |-> TRUE],
                    [text |-> "a", isCorrect |-> FALSE],
                    [text |-> "b", isCorrect |-> FALSE] >>]

\* An activity shaped like activity 2 of DUMMY_LESSON_DATA: it carries wordPool
FillInBlanks ==
    [type |-> "fill-in-blanks",
     question |-> [text |-> TwoBlankTemplate],
     wordPool |-> << WA, Wa >>]

\* A fill-in-blanks activity as the authoring side saves it: wordBlocks and no wordPool
AuthoredFillInBlanks ==
    [type |-> "fill-in-blanks",
     question |-> [text |-> TwoBlankTemplate],
     wordBlocks |-> << WA, Wa >>]

Dialogue == [type |-> "dialogue"]

MatchImage == [type |-> "match-image", pairs |-> << [id |-> "p1"], [id |-> "p2"] >>]

Ordering == [type |-> "ordering"]

Activities ==
    { MultipleChoice, FillInBlanks, AuthoredFillInBlanks, Dialogue, MatchImage, Ordering }

Lessons ==
    UNION { { [activities |-> acts] : acts \in [1..n -> Activities] } : n \in 0..MaxActivities }

\* The values a caller passes to selectAnswer, the words passed to tapWord,
\* the indices passed to tapBlank
AnswerIds == { "a", "b", "p1" }

Words == { Wa, WA }

BlankIndices == 0..2

-----------------------------------------------------------------------------
(* Values derived on each render *)

totalSteps == Len(lessonData.activities) + 1

isActivity == step > 0

\* lessonData.activities[step - 1] is undefined past the last activity
HasContent == step = 0 \/ step <= Len(lessonData.activities)

currentContent == IF step = 0 THEN lessonData ELSE lessonData.activities[step]

\* isActivity && currentContent.type: a property of undefined is read
RenderThrows == isActivity /\ ~HasContent

IsType(t) == isActivity /\ HasContent /\ currentContent.type = t

parsed ==
    IF IsType("fill-in-blanks")
    THEN parseFillInBlanks(currentContent.question.text)
    ELSE [sentenceTemplate |-> <<>>, correctWords |-> <<>>]

blankParts == SelectSeq(parsed.sentenceTemplate, IsBlankToken)

\* Mutant: one filled blank is enough
allBlanksFilled_NonEmpty == Cardinality(DOMAIN blanksState) > 0

allBlanksFilled == Cardinality(DOMAIN blanksState) = Len(blankParts)

-----------------------------------------------------------------------------
(* Re-render and effect after a handler *)

\* useEffect(..., [step, isAnswered]) after the render of the state a handler produced
\* (s2, ans2, bl2, aw2: the new step, isAnswered, blanksState, availableWords).
\* The set of outcomes: blanksState, availableWords, and whether a TypeError was raised.
Rerender(s2, ans2, bl2, aw2) ==
    LET n == Len(lessonData.activities)
        same == [blanksState |-> bl2, availableWords |-> aw2, threw |-> FALSE]
        failed == [blanksState |-> bl2, availableWords |-> aw2, threw |-> TRUE]
    IN  IF s2 > n
        THEN { failed }
        ELSE IF (s2 # step \/ ans2 # isAnswered)
                /\ s2 > 0 /\ lessonData.activities[s2].type = "fill-in-blanks" /\ ~ans2
             THEN IF "wordPool" \in DOMAIN lessonData.activities[s2]
                  THEN { [blanksState |-> EmptyObject, availableWords |-> w, threw |-> FALSE] :
                           w \in Shuffle(lessonData.activities[s2].wordPool) }
                  ELSE { failed }
             ELSE { same }

\* The state after a handler that produced the given values, re-rendered
Commit(op, s2, ans2, cor2, sel2, bl2, aw2, clk2, handlerThrew) ==
    \E r \in Rerender(s2, ans2, bl2, aw2) :
        /\ step' = s2
        /\ isAnswered' = ans2
        /\ isCorrect' = cor2
        /\ selectedAnswer' = sel2
        /\ blanksState' = r.blanksState
        /\ availableWords' = r.availableWords
        /\ clickedOption' = clk2
        /\ runtimeError' = (runtimeError \/ handlerThrew \/ r.threw)
        /\ lastOp' = op
        /\ matchingState' = EmptyObject
        /\ UNCHANGED <<lessonData, pc, tokenizerVars, authoringVars>>

\* A handler call that sets no state: nothing is rendered again
NoOp(op, handlerThrew) ==
    /\ runtimeError' = (runtimeError \/ handlerThrew)
    /\ lastOp' = op
    /\ UNCHANGED <<lessonData, ctrl, clickedOption, pc, tokenizerVars, authoringVars>>

-----------------------------------------------------------------------------
(* Handlers *)

\* Mutant: the next blank is taken to be the number of blanks already filled
nextBlankIndex_Count ==
    IF Cardinality(DOMAIN blanksState) >= Len(blankParts)
    THEN -1
    ELSE Cardinality(DOMAIN blanksState)

\* blankParts.find(p => blanksState[p.blank] === undefined)?.blank, -1 for undefined
nextBlankIndex ==
    LET parts == blankParts
        open == { k \in 1..Len(parts) : parts[k].blank \notin DOMAIN blanksState }
    IN  IF open = {} THEN -1 ELSE parts[Min(open)].blank

\* prev => ({ ...prev, [nextBlankIndex]: word })
WithKey(obj, k, v) == [i \in DOMAIN obj \cup {k} |-> IF i = k THEN v ELSE obj[i]]

\* delete newState[blankIndex]
WithoutKey(obj, k) == [i \in DOMAIN obj \ {k} |-> obj[i]]

\* prev.filter(w => w !== word)
WithoutWord(words, word) ==
    LET Other(w) == w # word
    IN  SelectSeq(words, Other)

handleWordBlockTap(word) ==
    IF isAnswered
    THEN NoOp("tapWord", FALSE)
    ELSE LET next == nextBlankIndex
         IN  IF next = -1
             THEN NoOp("tapWord", FALSE)
             ELSE Commit("tapWord", step, isAnswered, isCorrect, selectedAnswer,
                         WithKey(blanksState, next, word),
                         WithoutWord(availableWords, word), clickedOption, FALSE)

\* if (wordToReturn): the blank holds a non-empty word
HoldsWord(blankIndex) ==
    blankIndex \in DOMAIN blanksState /\ blanksState[blankIndex] # <<>>

\* Mutant: the early return on isAnswered is missing
handleBlankClick_Unguarded(blankIndex) ==
    IF ~HoldsWord(blankIndex)
    THEN NoOp("tapBlank", FALSE)
    ELSE \E shuffled \in Shuffle(Append(availableWords, blanksState[blankIndex])) :
            Commit("tapBlank", step, isAnswered, isCorrect, selectedAnswer,
                   WithoutKey(blanksState, blankIndex), shuffled, clickedOption, FALSE)

\* Mutant: the word taken out of the blank is not put back
handleBlankClick_NoReturn(blankIndex) ==
    IF isAnswered \/ ~HoldsWord(blankIndex)
    THEN NoOp("tapBlank", FALSE)
    ELSE \E shuffled \in Shuffle(availableWords) :
            Commit("tapBlank", step, isAnswered, isCorrect, selectedAnswer,
                   WithoutKey(blanksState, blankIndex), shuffled, clickedOption, FALSE)

handleBlankClick(blankIndex) ==
    IF isAnswered \/ ~HoldsWord(blankIndex)
    THEN NoOp("tapBlank", FALSE)
    ELSE \E shuffled \in Shuffle(Append(availableWords, blanksState[blankIndex])) :
            Commit("tapBlank", step, isAnswered, isCorrect, selectedAnswer,
                   WithoutKey(blanksState, blankIndex), shuffled, clickedOption, FALSE)

\* Mutant: the early return on isAnswered is missing
handleAnswerSelect_Unguarded(answerId, clicked) ==
    Commit("selectAnswer", step, isAnswered, isCorrect, answerId,
           blanksState, availableWords, clicked, FALSE)

\* clicked: the index of the option button that was clicked, 0 for a direct call
handleAnswerSelect(answerId, clicked) ==
    IF isAnswered
    THEN NoOp("selectAnswer", FALSE)
    ELSE Commit("selectAnswer", step, isAnswered, isCorrect, answerId,
                blanksState, availableWords, clicked, FALSE)

\* currentContent.options.find(opt => opt.text === selectedAnswer)?.isCorrect || false
MultipleChoiceCorrect ==
    LET hits == { k \in 1..Len(currentContent.options) :
                    currentContent.options[k].text = selectedAnswer }
    IN  IF hits = {} THEN FALSE ELSE currentContent.options[Min(hits)].isCorrect

\* Mutant: the words are compared without regard to the blank they are in
FillInBlanksCorrect_AnyOrder ==
    LET parts == blankParts
    IN  { blanksState[i] : i \in DOMAIN blanksState }
            = { parts[k].correct : k \in 1..Len(parts) }

\* blankParts.every(part => blanksState[part.blank] === part.correct)
FillInBlanksCorrect ==
    LET parts == blankParts
    IN  \A k \in 1..Len(parts) :
            /\ parts[k].blank \in DOMAIN blanksState
            /\ blanksState[parts[k].blank] = parts[k].correct

\* Mutant: a match-image step is correct only once a pair has been selected
Evaluate_MatchNeedsSelection ==
    CASE currentContent.type = "multiple-choice" -> MultipleChoiceCorrect
      [] currentContent.type = "fill-in-blanks" -> FillInBlanksCorrect
      [] currentContent.type \in {"dialogue", "ordering"} -> TRUE
      [] currentContent.type = "match-image" -> selectedAnswer # Null
      [] OTHER -> FALSE

\* the switch over currentContent.type
Evaluate ==
    CASE currentContent.type = "multiple-choice" -> MultipleChoiceCorrect
      [] currentContent.type = "fill-in-blanks" -> FillInBlanksCorrect
      [] currentContent.type \in {"dialogue", "match-image", "ordering"} -> TRUE
      [] OTHER -> FALSE

checkAnswer ==
    IF step = 0
    THEN Commit("check", step, TRUE, TRUE, selectedAnswer,
                blanksState, availableWords, clickedOption, FALSE)
    ELSE IF ~HasContent
         THEN NoOp("check", TRUE)
         ELSE Commit("check", step, TRUE, Evaluate, selectedAnswer,
                     blanksState, availableWords, clickedOption, FALSE)

\* Mutant: off by one in the bound of the step counter
CanContinue_Le == step <= totalSteps

\* if (step < totalSteps)
CanContinue == step < totalSteps

\* Mutant: the selection and the blanks are not reset
handleContinue_KeepAnswer ==
    IF CanContinue
    THEN Commit("continue", step + 1, FALSE, FALSE, selectedAnswer,
                blanksState, availableWords, clickedOption, FALSE)
    ELSE NoOp("continue", FALSE)

handleContinue ==
    IF CanContinue
    THEN Commit("continue", step + 1, FALSE, FALSE, Null,
                EmptyObject, availableWords, 0, FALSE)
    ELSE NoOp("continue", FALSE)

-----------------------------------------------------------------------------
(* The operations of the controller *)

check == checkAnswer

continue == handleContinue

selectAnswer == \E value \in AnswerIds : handleAnswerSelect(value, 0)

\* onClick={() => handleAnswerSelect(opt.text)} of the i-th option button
clickOption ==
    /\ IsType("multiple-choice")
    /\ \E i \in 1..Len(currentContent.options) :
          handleAnswerSelect(currentContent.options[i].text, i)

tapWord == \E word \in Words : handleWordBlockTap(word)

tapBlank == \E index \in BlankIndices : handleBlankClick(index)

-----------------------------------------------------------------------------
(* The authoring side: data structures and initial states.  A text that is *)
(* trimmed or searched by the code is a sequence of one-character strings; *)
(* a time stamp and an id are readings of the clock.                       *)

\* The reading of the clock when the module is loaded
LoadTime == 0

initialMediaElement ==
    [id |-> LoadTime, text |-> <<>>, translation |-> "", audioFile |-> Null, audioUrl |-> ""]

\* { ...initialMediaElement, isCorrect }
InitialOption(correct) ==
    [id |-> LoadTime, text |-> <<>>, translation |-> "", audioFile |-> Null, audioUrl |-> "",
     isCorrect |-> correct]

\* { ...initialMediaElement, image: "" }
InitialPair ==
    [id |-> LoadTime, text |-> <<>>, translation |-> "", audioFile |-> Null, audioUrl |-> "",
     image |-> ""]

initialActivityData ==
    [id |-> LoadTime,
     type |-> "multiple-choice",
     title |-> <<>>,
     description |-> "",
     question |-> initialMediaElement,
     options |-> <<InitialOption(TRUE), InitialOption(FALSE), InitialOption(FALSE)>>,
     items |-> <<initialMediaElement>>,
     pairs |-> <<InitialPair>>,
     wordBlocks |-> <<>>,
     difficulty |-> "beginner",
     timeEstimate |-> 5]

initialLessonState ==
    [id |-> LoadTime,
     title |-> "",
     description |-> "",
     level |-> "beginner",
     objectives |-> <<"">>,
     introParts |-> <<"">>,
     activities |-> <<>>,
     tags |-> <<>>,
     currentView |-> "list",
     isSaved |-> FALSE,
     isPublished |-> FALSE,
     createdAt |-> LoadTime,
     updatedAt |-> LoadTime]

\* The state of the quiz controller after construction
QuizInit ==
    /\ step = 0
    /\ isAnswered = FALSE
    /\ isCorrect = FALSE
    /\ selectedAnswer = Null
    /\ matchingState = EmptyObject
    /\ blanksState = EmptyObject
    /\ availableWords = <<>>
    /\ clickedOption = 0
    /\ runtimeError = FALSE
    /\ lastOp = "init"

\* No template has been given to the tokenizer
TokenizerIdle ==
    /\ templateArg = <<>>
    /\ parseResult = parseFillInBlanks(<<>>)

\* The state of the dashboard after construction
\* No action has been dispatched yet
NoAction == "@@INIT"

HistoryInit ==
    /\ lastAction = NoAction
    /\ removed = 0

\* useState(false) for isEditingActivity, an empty localStorage, no upload under way
DashboardInit ==
    /\ isEditingActivity = FALSE
    /\ store = <<>>
    /\ pending = <<>>

AuthoringInit ==
    /\ tempActivity = initialActivityData
    /\ validationErrors = <<>>
    /\ lessonState = initialLessonState
    /\ clock = LoadTime
    /\ added = 0
    /\ DashboardInit
    /\ HistoryInit

\* The dashboard is not mounted
AuthoringIdle ==
    /\ tempActivity = Null
    /\ validationErrors = <<>>
    /\ lessonState = Null
    /\ clock = LoadTime
    /\ added = 0
    /\ DashboardInit
    /\ HistoryInit

Init ==
    /\ lessonData \in Lessons
    /\ QuizInit
    /\ pc = "idle"
    /\ TokenizerIdle
    /\ AuthoringIdle

Next ==
    \/ check
    \/ continue
    \/ selectAnswer
    \/ clickOption
    \/ tapWord
    \/ tapBlank

Spec == Init /\ [][Next]_vars

TypeOK ==
    /\ lessonData \in Lessons
    /\ step \in 0..totalSteps
    /\ isAnswered \in BOOLEAN
    /\ isCorrect \in BOOLEAN
    /\ selectedAnswer \in AnswerIds \cup {Null}
    /\ DOMAIN blanksState \subseteq BlankIndices
    /\ clickedOption \in 0..3
    /\ runtimeError \in BOOLEAN

-----------------------------------------------------------------------------
(* The quiz controller driven through its rendered controls: a handler is  *)
(* called only by a control that is rendered and not disabled, and no      *)
(* control is left once a render or an effect has thrown.                  *)

Mounted == ~runtimeError

\* !disabled of the Check button
CheckEnabled ==
    \/ step = 0
    \/ (step # 0 /\ currentContent.type = "dialogue")
    \/ selectedAnswer # Null
    \/ allBlanksFilled

uiCheck ==
    /\ Mounted
    /\ ~isAnswered
    /\ CheckEnabled
    /\ checkAnswer

uiContinue ==
    /\ Mounted
    /\ isAnswered
    /\ handleContinue

uiClickOption ==
    /\ Mounted
    /\ ~isAnswered
    /\ clickOption

uiClickPair ==
    /\ Mounted
    /\ IsType("match-image")
    /\ ~isAnswered
    /\ \E k \in 1..Len(currentContent.pairs) :
          handleAnswerSelect(currentContent.pairs[k].id, 0)

uiTapWord ==
    /\ Mounted
    /\ IsType("fill-in-blanks")
    /\ ~(isAnswered \/ allBlanksFilled)
    /\ \E k \in 1..Len(availableWords) : handleWordBlockTap(availableWords[k])

uiTapBlank ==
    /\ Mounted
    /\ IsType("fill-in-blanks")
    /\ \E k \in 1..Len(blankParts) :
          /\ ~(isAnswered \/ ~HoldsWord(blankParts[k].blank))
          /\ handleBlankClick(blankParts[k].blank)

NextUI ==
    \/ uiCheck
    \/ uiContinue
    \/ uiClickOption
    \/ uiClickPair
    \/ uiTapWord
    \/ uiTapBlank

SpecUI == Init /\ [][NextUI]_vars

\* Fill-in-blanks activities for "{a} {A}" whose pool has fewer words than the template
\* has blanks, and whose pool has a word twice
ShortPool ==
    [type |-> "fill-in-blanks",
     question |-> [text |-> TwoBlankTemplate],
     wordPool |-> << Wa >>]

RepeatedPool ==
    [type |-> "fill-in-blanks",
     question |-> [text |-> TwoBlankTemplate],
     wordPool |-> << Wa, Wa, WA >>]

PoolActivities == { MultipleChoice, MatchImage, FillInBlanks, ShortPool, RepeatedPool }

PoolLessons ==
    UNION { { [activities |-> acts] : acts \in [1..n -> PoolActivities] } :
              n \in 1..MaxActivities }

PoolInit ==
    /\ lessonData \in PoolLessons
    /\ QuizInit
    /\ pc = "idle"
    /\ TokenizerIdle
    /\ AuthoringIdle

\* The rendered controls on lessons with such pools
SpecPool == PoolInit /\ [][NextUI]_vars

-----------------------------------------------------------------------------
(* parseFillInBlanks as a function of its argument: the tokenizer is given *)
(* a template, and its result is then rebuilt into a string and tokenized  *)
(* again.                                                                  *)

\* The characters of the templates: the two braces, a space, a line feed, a letter
TemplateAlphabet == { "{", "}", " ", "\n", "a" }

\* "Smeety Alex, o {nty}?"
ExampleTemplate ==
    << "S", "m", "e", "e", "t", "y", " ", "A", "l", "e", "x", ",", " ", "o", " ",
       "{", "n", "t", "y", "}", "?" >>

\* Two groups of balanced braces, a line feed in each
TwoLineGroups == << "{", "\n", "}", "{", "\n", "}" >>

Templates ==
    UNION { [1..n -> TemplateAlphabet] : n \in 0..MaxTemplateLen }
        \cup { ExampleTemplate, TwoLineGroups }

\* Concatenating the text tokens verbatim and "{" + correct + "}" for each blank
RECURSIVE Rebuild(_, _)
Rebuild(tokens, k) ==
    IF k > Len(tokens) THEN <<>>
    ELSE (IF IsBlankToken(tokens[k])
          THEN << "{" >> \o tokens[k].correct \o << "}" >>
          ELSE tokens[k].text) \o Rebuild(tokens, k + 1)

TokenizerInit ==
    /\ lessonData = [activities |-> <<>>]
    /\ QuizInit
    /\ pc = "input"
    /\ templateArg \in Templates
    /\ parseResult = parseFillInBlanks(<<>>)
    /\ AuthoringIdle

\* parseFillInBlanks(template)
tokenize ==
    /\ pc = "input"
    /\ parseResult' = parseFillInBlanks(templateArg)
    /\ pc' = "output"
    /\ UNCHANGED <<quizVars, templateArg, authoringVars>>

\* parseFillInBlanks applied to the string rebuilt from its own result
retokenize ==
    /\ pc = "output"
    /\ templateArg' = Rebuild(parseResult.sentenceTemplate, 1)
    /\ parseResult' = parseFillInBlanks(templateArg')
    /\ pc' = "again"
    /\ UNCHANGED <<quizVars, authoringVars>>

NextTokenizer ==
    \/ tokenize
    \/ retokenize

SpecTokenizer == TokenizerInit /\ [][NextTokenizer]_vars

-----------------------------------------------------------------------------
(* validateActivity as a function of the draft *)

\* !text?.trim()
IsBlankText(text) == Trim(text) = <<>>

\* text.includes("{")
IncludesBrace(text) == \E i \in 1..Len(text) : text[i] = "{"

\* opt => opt.text.trim()
HasText(opt) == ~IsBlankText(opt.text)

TitleErrors(activity) ==
    IF IsBlankText(activity.title) THEN << "Activity title is required" >> ELSE <<>>

QuestionErrors(activity) ==
    IF IsBlankText(activity.question.text) THEN << "Question text is required" >> ELSE <<>>

\* the switch over activity.type
TypeErrors(activity) ==
    CASE activity.type = "multiple-choice" ->
            (IF Len(SelectSeq(activity.options, HasText)) < 2
             THEN << "At least 2 options are required" >> ELSE <<>>)
            \o (IF ~(\E k \in 1..Len(activity.options) : activity.options[k].isCorrect)
                THEN << "One option must be marked as correct" >> ELSE <<>>)
      [] activity.type \in {"ordering", "dialogue"} ->
            IF Len(activity.items) < 2 THEN << "At least 2 items are required" >> ELSE <<>>
      [] activity.type = "match-image" ->
            IF Len(activity.pairs) < 2 THEN << "At least 2 pairs are required" >> ELSE <<>>
      [] activity.type = "fill-in-blanks" ->
            IF ~IncludesBrace(activity.question.text)
            THEN << "Sentence must contain blanks marked with {word}" >> ELSE <<>>
      [] OTHER -> <<>>

\* Mutant: the validator stops at the first rule that is broken
validateActivity_ShortCircuit(activity) ==
    IF TitleErrors(activity) # <<>> THEN TitleErrors(activity)
    ELSE IF QuestionErrors(activity) # <<>> THEN QuestionErrors(activity)
    ELSE IF TypeErrors(activity) = <<>> THEN <<>>
    ELSE << Head(TypeErrors(activity)) >>

validateActivity(activity) ==
    TitleErrors(activity) \o QuestionErrors(activity) \o TypeErrors(activity)

\* The texts of a title, of a question and of an option: empty, blank, not blank
ShortTexts == { <<>>, << " " >>, << "t" >> }

OptionDrafts ==
    { [InitialOption(correct) EXCEPT !.text = text] : text \in ShortTexts, correct \in BOOLEAN }

\* The drafts of one type: the fields the type does not use keep their initial values
MultipleChoiceDrafts ==
    { [initialActivityData EXCEPT !.title = title, !.question.text = text, !.options = options] :
        title \in ShortTexts, text \in ShortTexts,
        options \in UNION { [1..n -> OptionDrafts] : n \in 0..MaxOptions } }

ItemsDrafts ==
    { [initialActivityData EXCEPT !.type = type, !.title = title, !.question.text = text,
                                  !.items = [k \in 1..n |-> initialMediaElement]] :
        type \in {"ordering", "dialogue"}, title \in ShortTexts, text \in ShortTexts,
        n \in 0..MaxItems }

MatchImageDrafts ==
    { [initialActivityData EXCEPT !.type = "match-image", !.title = title, !.question.text = text,
                                  !.pairs = [k \in 1..n |-> InitialPair]] :
        title \in ShortTexts, text \in ShortTexts, n \in 0..MaxItems }

FillInBlanksDrafts ==
    { [initialActivityData EXCEPT !.type = "fill-in-blanks", !.title = title,
                                  !.question.text = text] :
        title \in ShortTexts, text \in Templates }

Drafts == MultipleChoiceDrafts \cup ItemsDrafts \cup MatchImageDrafts \cup FillInBlanksDrafts

ValidatorInit ==
    /\ lessonData = [activities |-> <<>>]
    /\ QuizInit
    /\ pc = "input"
    /\ TokenizerIdle
    /\ tempActivity \in Drafts
    /\ validationErrors = <<>>
    /\ lessonState = initialLessonState
    /\ clock = LoadTime
    /\ added = 0
    /\ DashboardInit
    /\ HistoryInit

\* const errors = validateActivity(tempActivity)
validate ==
    /\ pc = "input"
    /\ validationErrors' = validateActivity(tempActivity)
    /\ pc' = "output"
    /\ UNCHANGED <<quizVars, tokenizerVars, tempActivity, lessonState, clock, added,
                   dashboardVars, history>>

NextValidator == validate

SpecValidator == ValidatorInit /\ [][NextValidator]_vars

-----------------------------------------------------------------------------
(* lessonReducer.  now is the reading of the clock during the call: the    *)
(* value of Date.now() and the instant of new Date().                      *)

lessonReducer(state, action, now) ==
    CASE action.type = "SET_FIELD" ->
            [k \in DOMAIN state \cup {action.field} |->
                IF k = "updatedAt" THEN now
                ELSE IF k = action.field THEN action.value
                ELSE state[k]]
      [] action.type = "ADD_ACTIVITY" ->
            [state EXCEPT
                !.activities = Append(state.activities, [action.activity EXCEPT !.id = now]),
                !.updatedAt = now]
      [] action.type = "UPDATE_ACTIVITY" ->
            [state EXCEPT
                !.activities =
                    [k \in 1..Len(state.activities) |->
                        IF state.activities[k].id = action.id
                        THEN [action.activity EXCEPT !.id = state.activities[k].id]
                        ELSE state.activities[k]],
                !.updatedAt = now]
      [] action.type = "DELETE_ACTIVITY" ->
            LET Kept(act) == act.id # action.id
            IN  [state EXCEPT
                    !.activities = SelectSeq(state.activities, Kept),
                    !.updatedAt = now]
      [] action.type = "REORDER_ACTIVITIES" ->
            [state EXCEPT !.activities = action.activities, !.updatedAt = now]
      [] action.type = "SET_VIEW" ->
            [state EXCEPT !.currentView = action.view]
      [] action.type = "RESET_LESSON" ->
            [initialLessonState EXCEPT !.id = now, !.currentView = "setup"]
      [] action.type = "LOAD_LESSON" ->
            [action.lesson EXCEPT !.currentView = "setup", !.updatedAt = now]
      [] OTHER -> state

\* A reading of the clock before the module was loaded
PastTime == -1

\* The activities dispatched with ADD_ACTIVITY and UPDATE_ACTIVITY: two drafts
\* that differ in their title
ActivityPayloads ==
    { [initialActivityData EXCEPT !.type = "dialogue", !.title = title] :
        title \in { << "t" >>, << "a" >> } }

\* A lesson persisted by an earlier session
StoredLesson ==
    [initialLessonState EXCEPT
        !.id = PastTime,
        !.title = "L",
        !.activities = << [initialActivityData EXCEPT !.id = PastTime, !.type = "dialogue",
                                                      !.title = << "t" >>] >>,
        !.createdAt = PastTime,
        !.updatedAt = PastTime]

\* The ids carried by UPDATE_ACTIVITY and DELETE_ACTIVITY
ActivityIds == PastTime..MaxClock

\* The activity appended by ADD_ACTIVITY is followed while UPDATE_ACTIVITY actions
\* carry its id
Followed(action) ==
    CASE action.type = "ADD_ACTIVITY" -> Len(lessonState.activities) + 1
      [] action.type = "UPDATE_ACTIVITY" ->
            IF added # 0 /\ action.id = lessonState.activities[added].id THEN added ELSE 0
      [] OTHER -> 0

\* The sequence in the opposite order
Reverse(seq) == [k \in 1..Len(seq) |-> seq[Len(seq) + 1 - k]]

\* A dispatch whose DELETE_ACTIVITY hands the kept activities back in the opposite order
Dispatch_DeleteReverses(action) ==
    /\ lessonState' =
            LET after == lessonReducer(lessonState, action, clock)
            IN  IF action.type = "DELETE_ACTIVITY"
                THEN [after EXCEPT !.activities = Reverse(after.activities)]
                ELSE after
    /\ added' = Followed(action)
    /\ lastAction' = action.type
    /\ removed' = Max({0, Len(lessonState.activities) - Len(lessonState'.activities)})
    /\ UNCHANGED <<quizVars, pc, tokenizerVars, tempActivity, validationErrors, clock,
                   dashboardVars>>

\* dispatch(action)
Dispatch(action) ==
    /\ lessonState' = lessonReducer(lessonState, action, clock)
    /\ added' = Followed(action)
    /\ lastAction' = action.type
    /\ removed' = Max({0, Len(lessonState.activities) - Len(lessonState'.activities)})
    /\ UNCHANGED <<quizVars, pc, tokenizerVars, tempActivity, validationErrors, clock,
                   dashboardVars>>

setField ==
    \E value \in { "", "L" } :
        Dispatch([type |-> "SET_FIELD", field |-> "title", value |-> value])

addActivity ==
    /\ Len(lessonState.activities) < MaxLessonActivities
    /\ \E activity \in ActivityPayloads :
          Dispatch([type |-> "ADD_ACTIVITY", activity |-> activity])

updateActivity ==
    \E id \in ActivityIds, activity \in ActivityPayloads :
        Dispatch([type |-> "UPDATE_ACTIVITY", id |-> id, activity |-> activity])

deleteActivity ==
    \E id \in ActivityIds : Dispatch([type |-> "DELETE_ACTIVITY", id |-> id])

reorderActivities ==
    \E activities \in Shuffle(lessonState.activities) :
        Dispatch([type |-> "REORDER_ACTIVITIES", activities |-> activities])

setView ==
    \E view \in { "list", "setup", "builder" } :
        Dispatch([type |-> "SET_VIEW", view |-> view])

resetLesson == Dispatch([type |-> "RESET_LESSON"])

loadLesson == Dispatch([type |-> "LOAD_LESSON", lesson |-> StoredLesson])

\* Time passes
tick ==
    /\ clock < MaxClock
    /\ clock' = clock + 1
    /\ UNCHANGED <<quizVars, pc, tokenizerVars, tempActivity, validationErrors,
                   lessonState, added, dashboardVars, history>>

ReducerInit ==
    /\ lessonData = [activities |-> <<>>]
    /\ QuizInit
    /\ pc = "idle"
    /\ TokenizerIdle
    /\ AuthoringInit

NextReducer ==
    \/ setField
    \/ addActivity
    \/ updateActivity
    \/ deleteActivity
    \/ reorderActivities
    \/ setView
    \/ resetLesson
    \/ loadLesson
    \/ tick

SpecReducer == ReducerInit /\ [][NextReducer]_vars

-----------------------------------------------------------------------------
(* The activity draft editor: the handlers of the builder view that change *)
(* tempActivity.  A position in an array is the JavaScript index plus one, *)
(* and elementIndex = null is 0.  The descriptor { name, url } an upload   *)
(* resolves to is the name of its file.                                    *)

NoIndex == 0

\* The files the author picks in the file inputs
AudioFiles == { "a.mp3", "b.mp3" }

\* The types the type select offers
ActivityTypes == { "multiple-choice", "fill-in-blanks", "ordering", "match-image", "dialogue" }

\* The characters of a type
Chars(type) ==
    CASE type = "multiple-choice" ->
            << "m", "u", "l", "t", "i", "p", "l", "e", "-", "c", "h", "o", "i", "c", "e" >>
      [] type = "fill-in-blanks" ->
            << "f", "i", "l", "l", "-", "i", "n", "-", "b", "l", "a", "n", "k", "s" >>
      [] type = "ordering" -> << "o", "r", "d", "e", "r", "i", "n", "g" >>
      [] type = "match-image" -> << "m", "a", "t", "c", "h", "-", "i", "m", "a", "g", "e" >>
      [] type = "dialogue" -> << "d", "i", "a", "l", "o", "g", "u", "e" >>

\* String.prototype.replace(pattern, replacement) with a one-character string pattern:
\* the first occurrence only
Replace(text, pattern, replacement) ==
    LET hits == { k \in 1..Len(text) : text[k] = pattern }
    IN  IF hits = {} THEN text ELSE [text EXCEPT ![Min(hits)] = replacement]

\* `New ${newType.replace("-", " ")} activity`
GeneratedTitle(newType) ==
    << "N", "e", "w", " " >> \o Replace(Chars(newType), "-", " ")
        \o << " ", "a", "c", "t", "i", "v", "i", "t", "y" >>

\* newField[elementIndex] of a copy of the array: undefined past its end, and the
\* spread of undefined is the empty object
ElementAt(arr, elementIndex) ==
    IF elementIndex <= Len(arr) THEN arr[elementIndex] ELSE EmptyObject

\* newField[elementIndex] = element on a copy of the array
WriteAt(arr, elementIndex, element) ==
    [k \in 1..Max({ Len(arr), elementIndex }) |->
        IF k = elementIndex THEN element
        ELSE IF k <= Len(arr) THEN arr[k]
        ELSE EmptyObject]

\* The updater handleMediaElementChange hands to setTempActivity, in both branches
MediaElementChanged(prev, field, key, value, elementIndex) ==
    LET newField ==
            IF elementIndex # NoIndex
            THEN WriteAt(prev[field], elementIndex,
                         WithKey(ElementAt(prev[field], elementIndex), key, value))
            ELSE WithKey(prev[field], key, value)
    IN  [prev EXCEPT ![field] = newField]

\* arr.filter((_, i) => i !== index)
WithoutIndex(arr, index) ==
    [k \in 1..(Len(arr) - (IF index \in 1..Len(arr) THEN 1 ELSE 0)) |->
        IF k < index THEN arr[k] ELSE arr[k + 1]]

\* prev.options.map((o, i) => ({ ...o, isCorrect: i === index }))
CorrectAt(options, index) ==
    [k \in 1..Len(options) |-> WithKey(options[k], "isCorrect", k = index)]

\* A type change that leaves the title as it is
TypeChanged_KeepTitle(prev, newType) ==
    [initialActivityData EXCEPT !.id = prev.id, !.type = newType, !.title = prev.title]

\* handleTypeChange: the draft it hands to setTempActivity
TypeChanged(prev, newType) ==
    [initialActivityData EXCEPT
        !.id = prev.id,
        !.type = newType,
        !.title = IF prev.title # <<>> THEN prev.title ELSE GeneratedTitle(newType)]

\* generateId = () => Date.now() + Math.random().  Math.random() is 0 or a proper
\* fraction; with a fraction the id is no reading of the clock, and such ids are the
\* integers below PastTime
generateId(now, random) == IF random = 0 THEN now ELSE PastTime - 1 - now

\* The clock reading while the author edits
EditTime == 2

\* A lesson of two activities authored earlier, open in the builder
AuthoredLesson ==
    [initialLessonState EXCEPT
        !.title = "L",
        !.currentView = "builder",
        !.updatedAt = EditTime,
        !.activities =
            << [initialActivityData EXCEPT
                    !.id = 1,
                    !.title = << "t" >>,
                    !.question = WithKey(initialMediaElement, "text", << "q" >>),
                    !.options = << WithKey(InitialOption(FALSE), "text", << "x" >>),
                                   WithKey(InitialOption(TRUE), "text", << "y" >>),
                                   WithKey(InitialOption(FALSE), "text", << "z" >>) >>],
               [initialActivityData EXCEPT
                    !.id = 2,
                    !.type = "match-image",
                    !.title = << "a" >>,
                    !.question = WithKey(initialMediaElement, "text", << "q" >>),
                    !.pairs = << WithKey(InitialPair, "text", << "x" >>),
                                 WithKey(InitialPair, "text", << "y" >>),
                                 WithKey(InitialPair, "text", << "z" >>) >>] >>]

\* lessons.findIndex(lesson => lesson.id === id), plus one; 0 when there is none
FindIndex(lessons, id) ==
    LET hits == { k \in 1..Len(lessons) : lessons[k].id = id }
    IN  IF hits = {} THEN 0 ELSE Min(hits)

\* parseInt("") when the time estimate is cleared; the time estimates typed are positive
NaN == -1

\* null where a number is expected
NullNumber == -2

\* JSON.parse(JSON.stringify(lesson)): NaN is written as null; the strings, the integers,
\* the booleans, null, and the arrays and objects of them come back as they were
JSONRoundTrip(lesson) ==
    [lesson EXCEPT
        !.activities =
            [k \in 1..Len(@) |->
                [@[k] EXCEPT !.timeEstimate = IF @ = NaN THEN NullNumber ELSE @]]]

\* The effect on [lessonState]: the stored list, as JSON.parse reads it, after the
\* effect has run
Persisted(lessons, lesson) ==
    IF Len(lesson.activities) > 0
    THEN LET existingIndex == FindIndex(lessons, lesson.id)
         IN  IF existingIndex > 0
             THEN [lessons EXCEPT ![existingIndex] = JSONRoundTrip(lesson)]
             ELSE Append(lessons, JSONRoundTrip(lesson))
    ELSE lessons

\* A handler that writes its draft through to the lesson's activity of the same id
Edit_InPlace(op, draft) ==
    /\ tempActivity' = draft
    /\ lastOp' = op
    /\ lessonState' =
            [lessonState EXCEPT
                !.activities = [k \in 1..Len(@) |-> IF @[k].id = draft.id THEN draft ELSE @[k]]]
    /\ UNCHANGED <<quizState, pc, tokenizerVars, validationErrors, clock, added,
                   isEditingActivity, store, pending, history>>

\* A handler of the builder view whose only state change is setTempActivity(draft)
Edit(op, draft) ==
    /\ tempActivity' = draft
    /\ lastOp' = op
    /\ UNCHANGED <<quizState, pc, tokenizerVars, validationErrors, lessonState, clock, added,
                   isEditingActivity, store, pending, history>>

\* The texts the author types
TypedTexts == { <<>>, << "t" >> }

\* onChange of the title input
setTitle(value) == Edit("setTitle", [tempActivity EXCEPT !.title = value])

\* onChangeText of the question's MediaElementInput
setQuestionText(value) ==
    Edit("setQuestionText", [tempActivity EXCEPT !.question = WithKey(@, "text", value)])

\* onChange of the time estimate input: parseInt(e.target.value)
setTimeEstimate(value) == Edit("setTimeEstimate", [tempActivity EXCEPT !.timeEstimate = value])

\* The array the settings of a type render: options, items or pairs
ListField(type) ==
    CASE type = "multiple-choice" -> "options"
      [] type \in { "ordering", "dialogue" } -> "items"
      [] type = "match-image" -> "pairs"
      [] OTHER -> Null

\* onChangeText of the MediaElementInput of a rendered element
setElementText(index, value) ==
    LET field == ListField(tempActivity.type)
    IN  /\ field # Null
        /\ index \in 1..Len(tempActivity[field])
        /\ Edit("setElementText", MediaElementChanged(tempActivity, field, "text", value, index))

\* + Add Option
addOption ==
    /\ tempActivity.type = "multiple-choice"
    /\ Len(tempActivity.options) < MaxOptions
    /\ Edit("addOption", [tempActivity EXCEPT !.options = Append(@, InitialOption(FALSE))])

\* + Add Item
addItem ==
    /\ tempActivity.type \in { "ordering", "dialogue" }
    /\ Len(tempActivity.items) < MaxItems
    /\ Edit("addItem", [tempActivity EXCEPT !.items = Append(@, initialMediaElement)])

\* + Add Pair
addPair ==
    /\ tempActivity.type = "match-image"
    /\ Len(tempActivity.pairs) < MaxItems
    /\ Edit("addPair", [tempActivity EXCEPT !.pairs = Append(@, InitialPair)])

\* onDelete of the MediaElementInput of an option
removeOption(index) ==
    /\ tempActivity.type = "multiple-choice"
    /\ index \in 1..Len(tempActivity.options)
    /\ IF Len(tempActivity.options) > 2
       THEN Edit("removeOption", [tempActivity EXCEPT !.options = WithoutIndex(@, index)])
       ELSE Edit("removeOption", tempActivity)

\* onDelete of the MediaElementInput of an item
removeItem(index) ==
    /\ tempActivity.type \in { "ordering", "dialogue" }
    /\ index \in 1..Len(tempActivity.items)
    /\ IF Len(tempActivity.items) > 1
       THEN Edit("removeItem", [tempActivity EXCEPT !.items = WithoutIndex(@, index)])
       ELSE Edit("removeItem", tempActivity)

\* Delete Pair
removePair(index) ==
    /\ tempActivity.type = "match-image"
    /\ index \in 1..Len(tempActivity.pairs)
    /\ IF Len(tempActivity.pairs) > 1
       THEN Edit("removePair", [tempActivity EXCEPT !.pairs = WithoutIndex(@, index)])
       ELSE Edit("removePair", tempActivity)

\* A radio button that marks its option and leaves the marks of the others
setCorrectOption_KeepOthers(index) ==
    /\ tempActivity.type = "multiple-choice"
    /\ index \in 1..Len(tempActivity.options)
    /\ Edit("setCorrectOption",
            [tempActivity EXCEPT !.options[index] = WithKey(@, "isCorrect", TRUE)])

\* onChange of the radio button of an option
setCorrectOption(index) ==
    /\ tempActivity.type = "multiple-choice"
    /\ index \in 1..Len(tempActivity.options)
    /\ Edit("setCorrectOption", [tempActivity EXCEPT !.options = CorrectAt(@, index)])

\* onChange of the type select
handleTypeChange(newType) == Edit("handleTypeChange", TypeChanged(tempActivity, newType))

\* The file input of the question
QuestionAudio == [field |-> "question", elementIndex |-> NoIndex]

\* The file input of an option
OptionAudio(index) == [field |-> "options", elementIndex |-> index]

\* The file input is rendered: the one of the question always, the one of an option
\* in the settings of a multiple-choice draft
Rendered(target) ==
    \/ target.field = "question"
    \/ /\ target.field = "options"
       /\ tempActivity.type = "multiple-choice"
       /\ target.elementIndex \in 1..Len(tempActivity.options)

\* onChangeAudio: handleMediaElementChange(field, "audioFile", file, true, elementIndex) up
\* to its await; the timer of handleAudioUpload is set
attachAudio(target, file) ==
    /\ Rendered(target)
    /\ \A k \in 1..Len(pending) : pending[k].file # file
    /\ pending' = Append(pending, [field |-> target.field,
                                   elementIndex |-> target.elementIndex,
                                   file |-> file])
    /\ lastOp' = "attachAudio"
    /\ UNCHANGED <<quizState, pc, tokenizerVars, tempActivity, validationErrors,
                   lessonState, clock, added, isEditingActivity, store, history>>

\* The timers have the same delay and fire in the order they were set: the upload
\* started first resolves, and handleMediaElementChange goes on after its await
resolveAudio ==
    /\ pending # <<>>
    /\ LET upload == Head(pending)
       IN  tempActivity' = MediaElementChanged(tempActivity, upload.field, "audioFile",
                                               upload.file, upload.elementIndex)
    /\ pending' = Tail(pending)
    /\ lastOp' = "resolveAudio"
    /\ UNCHANGED <<quizState, pc, tokenizerVars, validationErrors, lessonState, clock, added,
                   isEditingActivity, store, history>>

\* onEdit of the ActivityPreview of a listed activity
editActivity(k) ==
    /\ k \in 1..Len(lessonState.activities)
    /\ tempActivity' = lessonState.activities[k]
    /\ isEditingActivity' = TRUE
    /\ lessonState' = lessonReducer(lessonState, [type |-> "SET_VIEW", view |-> "builder"],
                                    clock)
    /\ store' = Persisted(store, lessonState')
    /\ lastAction' = "SET_VIEW"
    /\ removed' = 0
    /\ added' = 0
    /\ lastOp' = "editActivity"
    /\ UNCHANGED <<quizState, pc, tokenizerVars, validationErrors, clock, pending>>

\* Cancel Edit, rendered while an activity is edited
resetTempActivity ==
    /\ isEditingActivity
    /\ \E random \in { 0, 1 } :
           tempActivity' = [initialActivityData EXCEPT !.id = generateId(clock, random)]
    /\ isEditingActivity' = FALSE
    /\ validationErrors' = <<>>
    /\ lastOp' = "resetTempActivity"
    /\ UNCHANGED <<quizState, pc, tokenizerVars, lessonState, clock, added, store, pending,
                   history>>

EditorInit ==
    /\ lessonData = [activities |-> <<>>]
    /\ QuizInit
    /\ pc = "idle"
    /\ TokenizerIdle
    /\ tempActivity = initialActivityData
    /\ validationErrors = <<>>
    /\ lessonState = AuthoredLesson
    /\ clock = EditTime
    /\ added = 0
    /\ isEditingActivity = FALSE
    /\ store = << AuthoredLesson >>
    /\ pending = <<>>
    /\ HistoryInit

NextEditor ==
    \/ \E value \in TypedTexts : setTitle(value)
    \/ \E index \in 1..Max({ MaxOptions, MaxItems }) : setElementText(index, << "t" >>)
    \/ addOption
    \/ addItem
    \/ addPair
    \/ \E index \in 1..MaxOptions : removeOption(index)
    \/ \E index \in 1..MaxItems : removeItem(index)
    \/ \E index \in 1..MaxItems : removePair(index)
    \/ \E index \in 1..MaxOptions : setCorrectOption(index)
    \/ \E newType \in ActivityTypes : handleTypeChange(newType)
    \/ attachAudio(QuestionAudio, "a.mp3")
    \/ resolveAudio
    \/ \E k \in 1..Len(AuthoredLesson.activities) : editActivity(k)
    \/ resetTempActivity

SpecEditor == EditorInit /\ [][NextEditor]_vars

\* Audio attached while the draft is edited: the uploads of two files to the question
\* and to the third option, with the edits that can come between their start and
\* their end
NextAttach ==
    \/ \E file \in AudioFiles : attachAudio(QuestionAudio, file)
    \/ \E file \in AudioFiles : attachAudio(OptionAudio(3), file)
    \/ resolveAudio
    \/ \E value \in TypedTexts : setQuestionText(value)
    \/ addOption
    \/ \E index \in 1..MaxOptions : removeOption(index)
    \/ \E newType \in { "multiple-choice", "dialogue" } : handleTypeChange(newType)

SpecAttach == EditorInit /\ [][NextAttach]_vars

-----------------------------------------------------------------------------
(* The dashboard: the controls each view renders.  An action is the handler *)
(* of a control, the render that follows and the persistence effect, which *)
(* runs after every render that follows a change of lessonState.           *)

InView(view) == lessonState.currentView = view

\* A dispatch whose LOAD_LESSON opens the lesson in the view it was stored with
DispatchAndPersist_KeepView(action) ==
    /\ lessonState' =
            IF action.type = "LOAD_LESSON"
            THEN [action.lesson EXCEPT !.updatedAt = clock]
            ELSE lessonReducer(lessonState, action, clock)
    /\ store' = Persisted(store, lessonState')
    /\ added' = Followed(action)
    /\ lastAction' = action.type
    /\ removed' = Max({ 0, Len(lessonState.activities) - Len(lessonState'.activities) })

\* dispatch(action), the render, and the effect on [lessonState]
DispatchAndPersist(action) ==
    /\ lessonState' = lessonReducer(lessonState, action, clock)
    /\ store' = Persisted(store, lessonState')
    /\ added' = Followed(action)
    /\ lastAction' = action.type
    /\ removed' = Max({ 0, Len(lessonState.activities) - Len(lessonState'.activities) })

\* A control whose handler is a dispatch and nothing else
Control(op, action) ==
    /\ DispatchAndPersist(action)
    /\ lastOp' = op
    /\ UNCHANGED <<quizState, pc, tokenizerVars, tempActivity, validationErrors, clock,
                   isEditingActivity, pending>>

\* + Create New Lesson
createNewLesson ==
    /\ InView("list")
    /\ Control("createNewLesson", [type |-> "RESET_LESSON"])

\* Edit, on a saved lesson of the list
openLesson(k) ==
    /\ InView("list")
    /\ k \in 1..Len(store)
    /\ Control("openLesson", [type |-> "LOAD_LESSON", lesson |-> store[k]])

\* Back to Lessons, and Cancel
backToList ==
    /\ InView("setup")
    /\ Control("backToList", [type |-> "SET_VIEW", view |-> "list"])

\* onChange of the lesson title input
setLessonTitle(value) ==
    /\ InView("setup")
    /\ Control("setLessonTitle", [type |-> "SET_FIELD", field |-> "title", value |-> value])

\* Continue to Activity Builder
continueToBuilder ==
    /\ InView("setup")
    /\ Control("continueToBuilder", [type |-> "SET_VIEW", view |-> "builder"])

\* Back to Setup, and Back to Lesson Setup
backToSetup ==
    /\ InView("builder")
    /\ Control("backToSetup", [type |-> "SET_VIEW", view |-> "setup"])

\* onDelete of the ActivityPreview of a listed activity, confirmed or not
deleteListed(k, confirmed) ==
    /\ InView("builder")
    /\ k \in 1..Len(lessonState.activities)
    /\ IF confirmed
       THEN Control("deleteActivity",
                    [type |-> "DELETE_ACTIVITY", id |-> lessonState.activities[k].id])
       ELSE /\ lastOp' = "deleteActivity"
            /\ UNCHANGED <<quizState, pc, tokenizerVars, authoringVars>>

\* onEdit of the ActivityPreview of a listed activity
editListed(k) == InView("builder") /\ editActivity(k)

\* Cancel Edit
cancelEdit == InView("builder") /\ resetTempActivity

\* The action saveActivity dispatches for a draft that passed validation
SaveAction ==
    IF isEditingActivity
    THEN [type |-> "UPDATE_ACTIVITY", id |-> tempActivity.id, activity |-> tempActivity]
    ELSE [type |-> "ADD_ACTIVITY", activity |-> tempActivity]

\* What saveActivity does after validation: the dispatch and resetTempActivity
Saved ==
    /\ isEditingActivity \/ Len(lessonState.activities) < MaxLessonActivities
    /\ DispatchAndPersist(SaveAction)
    /\ \E random \in { 0, 1 } :
           tempActivity' = [initialActivityData EXCEPT !.id = generateId(clock, random)]
    /\ isEditingActivity' = FALSE
    /\ validationErrors' = <<>>
    /\ lastOp' = "saveActivity"
    /\ UNCHANGED <<quizState, pc, tokenizerVars, clock, pending>>

\* A Save button that does not validate
saveActivity_Unvalidated == InView("builder") /\ Saved

\* Save Activity to Lesson, and Update Activity
saveActivity ==
    /\ InView("builder")
    /\ LET errors == validateActivity(tempActivity)
       IN  IF Len(errors) > 0
           THEN /\ validationErrors' = errors
                /\ lastOp' = "saveActivity"
                /\ UNCHANGED <<quizState, pc, tokenizerVars, tempActivity, lessonState, clock,
                               added, dashboardVars, history>>
           ELSE Saved

\* A sentence with one blank
BlankSentence == << "{", "a", "}" >>

\* A lesson an earlier session saved from the builder, with one fill-in-blanks activity
SavedLesson ==
    [initialLessonState EXCEPT
        !.id = PastTime,
        !.title = "L",
        !.activities =
            << [initialActivityData EXCEPT
                    !.id = PastTime,
                    !.type = "fill-in-blanks",
                    !.title = << "t" >>,
                    !.question = WithKey(initialMediaElement, "text", BlankSentence)] >>,
        !.currentView = "builder",
        !.createdAt = PastTime,
        !.updatedAt = PastTime]

\* The dashboard is mounted with one lesson in the store
DashboardMounted ==
    /\ lessonData = [activities |-> <<>>]
    /\ QuizInit
    /\ pc = "idle"
    /\ TokenizerIdle
    /\ tempActivity = initialActivityData
    /\ validationErrors = <<>>
    /\ lessonState = initialLessonState
    /\ clock = LoadTime
    /\ added = 0
    /\ isEditingActivity = FALSE
    /\ store = << SavedLesson >>
    /\ pending = <<>>
    /\ HistoryInit

\* The controls of the three views, with a draft that is made a fill-in-blanks
\* activity and given its sentence
NextDashboard ==
    \/ createNewLesson
    \/ \E k \in 1..MaxLessonActivities : openLesson(k)
    \/ backToList
    \/ setLessonTitle("L")
    \/ continueToBuilder
    \/ backToSetup
    \/ \E k \in 1..MaxLessonActivities, confirmed \in BOOLEAN : deleteListed(k, confirmed)
    \/ \E k \in 1..MaxLessonActivities : editListed(k)
    \/ cancelEdit
    \/ saveActivity
    \/ InView("builder") /\ handleTypeChange("fill-in-blanks")
    \/ InView("builder") /\ setQuestionText(BlankSentence)

SpecDashboard == DashboardMounted /\ [][NextDashboard]_vars

\* The lessons created in a session and their way into the store, beside the lesson
\* an earlier session left there; the time estimate of a draft can be cleared
NextStore ==
    \/ createNewLesson
    \/ backToList
    \/ continueToBuilder
    \/ backToSetup
    \/ \E k \in 1..MaxLessonActivities, confirmed \in BOOLEAN : deleteListed(k, confirmed)
    \/ \E k \in 1..MaxLessonActivities : editListed(k)
    \/ cancelEdit
    \/ saveActivity
    \/ InView("builder") /\ handleTypeChange("fill-in-blanks")
    \/ InView("builder") /\ setQuestionText(BlankSentence)
    \/ InView("builder") /\ setTimeEstimate(NaN)

SpecStore == DashboardMounted /\ [][NextStore]_vars

\* The lesson an earlier session stored is in the store when the dashboard is mounted
PersistInit ==
    /\ lessonData = [activities |-> <<>>]
    /\ QuizInit
    /\ pc = "idle"
    /\ TokenizerIdle
    /\ tempActivity = initialActivityData
    /\ validationErrors = <<>>
    /\ lessonState = initialLessonState
    /\ clock = LoadTime
    /\ added = 0
    /\ isEditingActivity = FALSE
    /\ store = << StoredLesson >>
    /\ pending = <<>>
    /\ HistoryInit

\* The reducer's actions that create, load, fill and empty a lesson of at most one
\* activity, each followed by the persistence effect, while time passes
NextPersist ==
    \/ /\ Len(lessonState.activities) = 0
       /\ Control("ADD_ACTIVITY",
                  [type |-> "ADD_ACTIVITY", activity |-> CHOOSE a \in ActivityPayloads : TRUE])
    \/ /\ Len(lessonState.activities) > 0
       /\ Control("DELETE_ACTIVITY",
                  [type |-> "DELETE_ACTIVITY", id |-> lessonState.activities[1].id])
    \/ Control("RESET_LESSON", [type |-> "RESET_LESSON"])
    \/ \E k \in 1..(MaxClock + 2) :
          /\ k \in 1..Len(store)
          /\ Control("LOAD_LESSON", [type |-> "LOAD_LESSON", lesson |-> store[k]])
    \/ tick

SpecPersist == PersistInit /\ [][NextPersist]_vars

-----------------------------------------------------------------------------
(* Properties of the quiz step controller *)

answerState == <<step, isAnswered, isCorrect, selectedAnswer, blanksState>>

\* The number of occurrences of w in the sequence s
CountIn(s, w) == Cardinality({ i \in 1..Len(s) : s[i] = w })

IsPermutation(s, t) ==
    /\ Len(s) = Len(t)
    /\ \A i \in 1..Len(s) : CountIn(s, s[i]) = CountIn(t, s[i])

\* C1: a lesson with N activities has N + 1 steps; a continue() issued after a
\* check() advances step by exactly 1 until step = N + 1, a continue() at
\* step = N + 1 changes nothing, and step never exceeds N + 1.
C1_StepCounter ==
    [][ /\ totalSteps = Len(lessonData.activities) + 1
        /\ step' <= Len(lessonData'.activities) + 1
        /\ (lastOp' = "continue" =>
              /\ (isAnswered /\ step <= Len(lessonData.activities) => step' = step + 1)
              /\ (step = Len(lessonData.activities) + 1 => UNCHANGED ctrl)) ]_vars

\* The last of the N + 1 continues of a lesson with two activities has been made
C1_Witness ==
    /\ Len(lessonData.activities) = 2
    /\ step = 3
    /\ lastOp = "continue"

\* C2: a continue() issued while isAnswered is false changes none of step,
\* isAnswered, isCorrect, selectedAnswer, blanksState.
C2_ContinueRefusedBeforeCheck ==
    [][ lastOp' = "continue" /\ ~isAnswered => UNCHANGED answerState ]_vars

\* C3: at step = totalSteps no runtime error has been raised by the render of
\* that step, and no operation changes the controller state any more.
C3_CompletionState ==
    [][ /\ (step' = totalSteps' => ~runtimeError')
        /\ (step = totalSteps => UNCHANGED ctrl) ]_vars

\* C4: on a multiple-choice step check() sets isCorrect to the isCorrect flag of
\* the option the learner clicked.
C4_ClickedOptionDecides ==
    [][ lastOp' = "check" /\ IsType("multiple-choice") /\ clickedOption # 0
          => isCorrect' = currentContent.options[clickedOption].isCorrect ]_vars

\* C5: on a fill-in-blanks step check() sets isCorrect to true exactly when every
\* blank i of the tokenized template holds the i-th correct word.
C5_FillInBlanksExact ==
    [][ lastOp' = "check" /\ IsType("fill-in-blanks")
          => LET correctWords == parsed.correctWords
             IN  isCorrect' =
                   (\A i \in 0..(Len(correctWords) - 1) :
                       /\ i \in DOMAIN blanksState
                       /\ blanksState[i] = correctWords[i + 1]) ]_vars

\* check() has judged the two correct words placed in swapped blanks
C5_Witness ==
    /\ lastOp = "check"
    /\ IsType("fill-in-blanks")
    /\ DOMAIN blanksState = {0, 1}
    /\ blanksState[0] = WA
    /\ blanksState[1] = Wa
    /\ isAnswered
    /\ ~isCorrect

\* The words the claim gives to a fill-in-blanks step: wordBlocks, else wordPool
WordSource(activity) ==
    IF "wordBlocks" \in DOMAIN activity THEN activity.wordBlocks ELSE activity.wordPool

\* C6: on entering a fill-in-blanks step availableWords becomes a permutation of
\* the activity's wordBlocks (of its wordPool when it has no wordBlocks) and
\* blanksState becomes empty.
C6_EnterFillInBlanks ==
    [][ ( /\ lastOp' = "continue"
          /\ step' = step + 1
          /\ step' <= Len(lessonData.activities)
          /\ lessonData.activities[step'].type = "fill-in-blanks" )
          => /\ IsPermutation(availableWords', WordSource(lessonData.activities[step']))
             /\ blanksState' = EmptyObject ]_vars

\* C7: check() on a step that has content sets isAnswered, and while isAnswered
\* holds no operation other than continue() changes isCorrect.
C7_VerdictFixed ==
    [][ /\ (lastOp' = "check" /\ HasContent => isAnswered')
        /\ (isAnswered /\ lastOp' # "continue" => isAnswered' /\ isCorrect' = isCorrect) ]_vars

\* A tapWord was called between a check() with an empty blank and the next continue()
C7_Witness ==
    /\ IsType("fill-in-blanks")
    /\ isAnswered
    /\ ~isCorrect
    /\ DOMAIN blanksState = {0}
    /\ lastOp = "tapWord"

\* C8: selectAnswer(value) changes nothing while isAnswered is true, and sets
\* selectedAnswer to value and nothing else while it is false.
C8_SelectAnswerFrame ==
    [][ \A value \in AnswerIds, clicked \in 0..3 :
          lastOp' = "selectAnswer" /\ handleAnswerSelect(value, clicked) =>
            IF isAnswered
            THEN UNCHANGED ctrl
            ELSE /\ selectedAnswer' = value
                 /\ UNCHANGED <<step, isAnswered, isCorrect, matchingState,
                                blanksState, availableWords>> ]_vars

\* selectAnswer was called after check() and the selection made before it is kept
C8_Witness ==
    /\ isAnswered
    /\ lastOp = "selectAnswer"
    /\ selectedAnswer = "b"
    /\ IsType("multiple-choice")

\* C9: a continue() at step s < totalSteps gives step s + 1 with isAnswered and
\* isCorrect false, no selected answer and no filled blank.
C9_ContinueResets ==
    [][ lastOp' = "continue" /\ step < totalSteps
          => /\ step' = step + 1
             /\ isAnswered' = FALSE
             /\ isCorrect' = FALSE
             /\ selectedAnswer' = Null
             /\ blanksState' = EmptyObject ]_vars

\* A multiple-choice step entered from a fill-in-blanks step whose words were dealt
C9_Witness ==
    /\ lastOp = "continue"
    /\ step = 2
    /\ IsType("multiple-choice")
    /\ lessonData.activities[1].type = "fill-in-blanks"
    /\ Len(availableWords) > 0
    /\ "wordPool" \in DOMAIN lessonData.activities[1]
    /\ ~isAnswered

\* The lowest blank index of the tokenized template that holds no word, -1 if none
LowestEmptyBlank ==
    LET empty == (0..(Len(parsed.correctWords) - 1)) \ DOMAIN blanksState
    IN  IF empty = {} THEN -1 ELSE Min(empty)

\* C10: tapWord(word) while not answered puts word in the lowest-numbered empty
\* blank, keeps the other blanks and removes word from availableWords; when
\* answered or when no blank is empty it changes neither.
C10_TapWord ==
    [][ \A word \in Words :
          lastOp' = "tapWord" /\ handleWordBlockTap(word) =>
            LET lowest == LowestEmptyBlank
            IN
            IF ~isAnswered /\ lowest # -1
            THEN /\ DOMAIN blanksState' = DOMAIN blanksState \cup {lowest}
                 /\ blanksState'[lowest] = word
                 /\ \A i \in DOMAIN blanksState : blanksState'[i] = blanksState[i]
                 /\ CountIn(availableWords', word) = 0
                 /\ availableWords' = WithoutWord(availableWords, word)
            ELSE UNCHANGED <<blanksState, availableWords>> ]_vars

\* Blank 1 kept its word while blank 0 was emptied by tapBlank and filled again by tapWord
C10_Witness ==
    /\ lastOp = "tapWord"
    /\ ~isAnswered
    /\ DOMAIN blanksState = {0, 1}
    /\ blanksState[0] = Wa
    /\ blanksState[1] = WA
    /\ availableWords = << WA >>

\* C11: tapping the same word twice with no tapBlank in between fills exactly
\* one blank: after the first tapWord(word) the word is no longer in
\* availableWords, and the second tapWord(word) assigns nothing.  (With
\* lastOp = "tapWord", the step not answered, two blanks in the template and
\* blank 0 the only one filled, the call made last was tapWord(blanksState[0])
\* and it filled blank 0.)
C11_SecondTapAssignsNothing ==
    [][ \A word \in Words :
          ( /\ lastOp = "tapWord"
            /\ lastOp' = "tapWord"
            /\ IsType("fill-in-blanks")
            /\ ~isAnswered
            /\ DOMAIN blanksState = {0}
            /\ blanksState[0] = word
            /\ Len(blankParts) = 2
            /\ handleWordBlockTap(word) )
          => /\ CountIn(availableWords, word) = 0
             /\ blanksState' = blanksState ]_vars

\* C12: tapBlank(i) while the step is not answered and blank i holds a word
\* removes entry i from blanksState, leaves the other blanks unchanged and makes
\* availableWords a permutation of its previous content plus that word; when
\* isAnswered is true or blank i holds no word, blanksState and availableWords
\* are unchanged.
C12_TapBlank ==
    [][ lastOp' = "tapBlank" =>
          \A i \in BlankIndices :
             handleBlankClick(i) =>
                IF ~isAnswered /\ i \in DOMAIN blanksState
                THEN /\ DOMAIN blanksState' = DOMAIN blanksState \ {i}
                     /\ \A j \in DOMAIN blanksState' : blanksState'[j] = blanksState[j]
                     /\ IsPermutation(availableWords', Append(availableWords, blanksState[i]))
                ELSE UNCHANGED <<blanksState, availableWords>> ]_vars

\* A tapBlank(0) has emptied the first blank while the second one is filled
C12_Witness ==
    /\ lastOp = "tapBlank"
    /\ IsType("fill-in-blanks")
    /\ ~isAnswered
    /\ DOMAIN blanksState = {1}
    /\ Len(availableWords) = 1

\* C13: on a fill-in-blanks step allBlanksFilled is true if and only if every
\* blank index of the tokenized template has an assigned word in blanksState,
\* and the Check control of such a step is enabled only while allBlanksFilled
\* is true.
C13_AllBlanksFilled ==
    IsType("fill-in-blanks") =>
        LET indices == 0..(Len(parsed.correctWords) - 1)
        IN  /\ allBlanksFilled <=> \A i \in indices : i \in DOMAIN blanksState
            /\ (Mounted /\ ~isAnswered /\ CheckEnabled) => allBlanksFilled

\* Both blanks of a fill-in-blanks step are filled and the step is not checked yet
C13_Witness ==
    /\ IsType("fill-in-blanks")
    /\ Mounted
    /\ ~isAnswered
    /\ DOMAIN blanksState = {0, 1}
    /\ allBlanksFilled
    /\ CheckEnabled

\* C14: check() at step 0 and on every dialogue, match-image or ordering step
\* sets isCorrect = true, whatever the values of selectedAnswer and blanksState.
C14_AlwaysCorrect ==
    [][ ( /\ lastOp' = "check"
          /\ (step = 0 \/ IsType("dialogue") \/ IsType("match-image") \/ IsType("ordering")) )
        => isCorrect' = TRUE ]_vars

\* A match-image step has been checked with no pair selected
C14_Witness ==
    /\ lastOp = "check"
    /\ IsType("match-image")
    /\ selectedAnswer = Null
    /\ isAnswered
    /\ isCorrect

-----------------------------------------------------------------------------
(* Properties of the tokenizer *)

\* The index of the "}" that closes the "{" at position i: the first one after it, 0 if none
GroupEnd(t, i) ==
    LET closes == { j \in (i + 1)..Len(t) : t[j] = "}" }
    IN  IF closes = {} THEN 0 ELSE Min(closes)

\* The tokens of t[from..]: each {...} group, taken left to right, is a blank,
\* numbered from n on, and the text between two groups is a text token
RECURSIVE GroupTokens(_, _, _)
GroupTokens(t, from, n) ==
    LET starts == { i \in from..Len(t) : t[i] = "{" /\ GroupEnd(t, i) # 0 }
    IN  IF from > Len(t) THEN <<>>
        ELSE IF starts = {} THEN << [text |-> SubSeq(t, from, Len(t))] >>
        ELSE LET i == Min(starts)
                 j == GroupEnd(t, i)
             IN  (IF i > from THEN << [text |-> SubSeq(t, from, i - 1)] >> ELSE <<>>)
                 \o << [blank |-> n, correct |-> Trim(SubSeq(t, i + 1, j - 1))] >>
                 \o GroupTokens(t, j + 1, n + 1)

\* The blanks of a token sequence are numbered 0, 1, 2, ... in order of appearance
NumberedInOrder(tokens) ==
    LET blanks == SelectSeq(tokens, IsBlankToken)
    IN  \A k \in 1..Len(blanks) : blanks[k].blank = k - 1

\* correctWords[i] is the correct word of blank i
WordsOfBlanks(result) ==
    LET blanks == SelectSeq(result.sentenceTemplate, IsBlankToken)
    IN  /\ Len(result.correctWords) = Len(blanks)
        /\ \A k \in 1..Len(blanks) : result.correctWords[k] = blanks[k].correct

\* C15: for every template string, parseFillInBlanks returns the tokens in
\* left-to-right order, numbers the blanks 0, 1, 2, ... in order of appearance,
\* gives each blank as correct word the whitespace-trimmed content of its {...}
\* group, and returns correctWords whose i-th element is the correct word of
\* blank i; an empty template yields an empty token list and empty correctWords;
\* "Smeety Alex, o {nty}?" gives [text "Smeety Alex, o ", blank 0 correct "nty",
\* text "?"] and correctWords ["nty"].
C15_Tokens ==
    pc = "output" =>
        /\ parseResult.sentenceTemplate = GroupTokens(templateArg, 1, 0)
        /\ NumberedInOrder(parseResult.sentenceTemplate)
        /\ WordsOfBlanks(parseResult)
        /\ (templateArg = <<>> =>
               parseResult = [sentenceTemplate |-> <<>>, correctWords |-> <<>>])
        /\ (templateArg = ExampleTemplate =>
               parseResult =
                 [sentenceTemplate |->
                    << [text |-> SubSeq(ExampleTemplate, 1, 15)],
                       [blank |-> 0, correct |-> << "n", "t", "y" >>],
                       [text |-> << "?" >>] >>,
                  correctWords |-> << << "n", "t", "y" >> >>])

\* No blank content of t has leading or trailing whitespace
ContentsTrimmed(t) ==
    LET parts == SelectSeq(Split(t, 1), NonEmpty)
    IN  \A k \in 1..Len(parts) :
           IsBlankPart(parts[k]) =>
              LET content == SubSeq(parts[k], 2, Len(parts[k]) - 1)
              IN  Trim(content) = content

\* C16: tokenizer round trip: for every template string t, rebuilding a string
\* from parseFillInBlanks(t) by concatenating the text tokens verbatim and
\* "{" + correct + "}" for each blank, then tokenizing that string, gives a token
\* sequence and correctWords identical to those of t; and the rebuilt string
\* equals t whenever no blank content of t has leading or trailing whitespace.
C16_RoundTrip ==
    [][ (pc = "output" /\ pc' = "again") =>
           /\ parseResult' = parseResult
           /\ (ContentsTrimmed(templateArg) => templateArg' = templateArg) ]_vars

\* The "{" at position i of t is unterminated: no "}" comes after it
Unterminated(t, i) == t[i] = "{" /\ GroupEnd(t, i) = 0

\* C17: a template containing an unterminated "{" (no "}" after it) is parsed
\* without error and produces no blank for that brace: the "{" and the
\* characters after it appear in a text token, and the blanks before it are
\* numbered as usual.
C17_UnterminatedBrace ==
    pc = "output" =>
        \A i \in 1..Len(templateArg) :
           Unterminated(templateArg, i) =>
              LET tokens == parseResult.sentenceTemplate
                  last == tokens[Len(tokens)]
                  rest == SubSeq(templateArg, i, Len(templateArg))
              IN  /\ Len(tokens) > 0
                  /\ ~IsBlankToken(last)
                  /\ Len(last.text) >= Len(rest)
                  /\ SubSeq(last.text, Len(last.text) - Len(rest) + 1, Len(last.text)) = rest
                  /\ NumberedInOrder(tokens)
                  /\ WordsOfBlanks(parseResult)

\* "{a}{" has been tokenized: one blank, then the unterminated brace as text
C17_Witness ==
    /\ pc = "output"
    /\ templateArg = << "{", "a", "}", "{" >>
    /\ parseResult.sentenceTemplate = << [blank |-> 0, correct |-> << "a" >>], [text |-> << "{" >>] >>

-----------------------------------------------------------------------------
(* Properties of the validator *)

\* A text is required: it has a character that is not whitespace
HasVisibleCharacter(text) == \E i \in 1..Len(text) : ~IsWhiteSpace(text[i])

\* The error messages in the order of the rules
ErrorOrder ==
    << "Activity title is required",
       "Question text is required",
       "At least 2 options are required",
       "One option must be marked as correct",
       "At least 2 items are required",
       "At least 2 pairs are required",
       "Sentence must contain blanks marked with {word}" >>

\* The rule that message states is broken by draft
Broken(message, draft) ==
    CASE message = ErrorOrder[1] -> ~HasVisibleCharacter(draft.title)
      [] message = ErrorOrder[2] -> ~HasVisibleCharacter(draft.question.text)
      [] message = ErrorOrder[3] ->
            /\ draft.type = "multiple-choice"
            /\ Cardinality({ k \in 1..Len(draft.options) :
                               HasVisibleCharacter(draft.options[k].text) }) < 2
      [] message = ErrorOrder[4] ->
            /\ draft.type = "multiple-choice"
            /\ \A k \in 1..Len(draft.options) : ~draft.options[k].isCorrect
      [] message = ErrorOrder[5] ->
            /\ draft.type \in {"ordering", "dialogue"}
            /\ Len(draft.items) < 2
      [] message = ErrorOrder[6] ->
            /\ draft.type = "match-image"
            /\ Len(draft.pairs) < 2
      [] message = ErrorOrder[7] ->
            /\ draft.type = "fill-in-blanks"
            /\ \A i \in 1..Len(draft.question.text) : draft.question.text[i] # "{"

\* C18: validateActivity returns every applicable error, not only the first, in
\* the fixed order: title required, question text required, then the errors of
\* the activity's type; the list is empty iff no rule is broken.  In particular
\* a multiple-choice draft with valid title and question, exactly one option
\* with non-blank text and no option marked correct yields exactly the two
\* errors "At least 2 options are required" and "One option must be marked as
\* correct", in that order.
C18_AllErrorsInOrder ==
    pc = "output" =>
        LET IsBroken(message) == Broken(message, tempActivity)
            options == tempActivity.options
        IN  /\ validationErrors = SelectSeq(ErrorOrder, IsBroken)
            /\ (validationErrors = <<>> <=> \A k \in 1..Len(ErrorOrder) : ~IsBroken(ErrorOrder[k]))
            /\ ( ( /\ tempActivity.type = "multiple-choice"
                    /\ HasVisibleCharacter(tempActivity.title)
                    /\ HasVisibleCharacter(tempActivity.question.text)
                    /\ Cardinality({ k \in 1..Len(options) :
                                       HasVisibleCharacter(options[k].text) }) = 1
                    /\ \A k \in 1..Len(options) : ~options[k].isCorrect )
                  => validationErrors = << ErrorOrder[3], ErrorOrder[4] >> )

\* A multiple-choice draft with one option that has a text and none marked
\* correct has been validated
C18_Witness ==
    /\ pc = "output"
    /\ tempActivity.type = "multiple-choice"
    /\ Len(tempActivity.options) = 2
    /\ tempActivity.options[1].text = << "t" >>
    /\ tempActivity.options[2].text = << " " >>
    /\ validationErrors = << "At least 2 options are required",
                              "One option must be marked as correct" >>

\* C19: for a fill-in-blanks draft with valid title and question text,
\* validateActivity returns the blanks-required error (and no other) exactly
\* when question.text contains no {...}-delimited blank, i.e. exactly when
\* parseFillInBlanks(question.text) yields zero blanks; so every fill-in-blanks
\* activity that passes validation has at least one blank.
C19_BlanksRequired ==
    ( /\ pc = "output"
      /\ tempActivity.type = "fill-in-blanks"
      /\ HasVisibleCharacter(tempActivity.title)
      /\ HasVisibleCharacter(tempActivity.question.text) )
    => LET blanks == Len(parseFillInBlanks(tempActivity.question.text).correctWords)
       IN  /\ (validationErrors = << ErrorOrder[7] >> <=> blanks = 0)
           /\ (validationErrors # << ErrorOrder[7] >> => validationErrors = <<>>)
           /\ (validationErrors = <<>> => blanks >= 1)

-----------------------------------------------------------------------------
(* Properties of the reducer *)

\* C20: after ADD_ACTIVITY(a) gives the new activity id g, any sequence of
\* UPDATE_ACTIVITY(g, p1), ..., UPDATE_ACTIVITY(g, pk) leaves in the lesson an
\* activity with id g, at the same position, whose content other than id equals
\* pk, and leaves every other activity unchanged.
C20_UpdateAfterAdd ==
    [][ \A p \in ActivityPayloads :
          ( /\ added # 0
            /\ Dispatch([type |-> "UPDATE_ACTIVITY",
                         id |-> lessonState.activities[added].id,
                         activity |-> p]) )
          => LET before == lessonState.activities
                 after == lessonState'.activities
                 g == before[added].id
             IN  /\ Len(after) = Len(before)
                 /\ after[added] = [p EXCEPT !.id = g]
                 /\ \A j \in 1..Len(before) : j # added => after[j] = before[j] ]_vars

\* The positions of the activities whose id is not the given one
KeptPositions(activities, id) == { k \in 1..Len(activities) : activities[k].id # id }

C24_UpdatedAtStamped ==
    [][/\ lastAction' # "SET_VIEW" /\ (NextReducer /\ ~tick) => lessonState'.updatedAt = clock
       /\ lastAction' = "SET_VIEW" /\ setView =>
            /\ DOMAIN lessonState' = DOMAIN lessonState
            /\ \A k \in DOMAIN lessonState \ { "currentView" } :
                    lessonState'[k] = lessonState[k]]_vars

-----------------------------------------------------------------------------
(* Properties of the activity draft editor *)

\* The draft after is the draft before without the element at index of the array
\* field, and with nothing else changed
RemovedAt(before, after, field, index) ==
    /\ Len(after[field]) = Len(before[field]) - 1
    /\ \A k \in 1..Len(after[field]) :
           after[field][k] = IF k < index THEN before[field][k] ELSE before[field][k + 1]
    /\ DOMAIN after = DOMAIN before
    /\ \A key \in DOMAIN before \ { field } : after[key] = before[key]

\* The remove operation either refuses, at the minimum, or removes the element at index
RefusesAt(minimum, field, index) ==
    /\ Len(tempActivity[field]) = minimum => tempActivity' = tempActivity
    /\ Len(tempActivity[field]) > minimum => RemovedAt(tempActivity, tempActivity', field, index)

\* C25: removeOption and removePair leave the draft unchanged when their collection
\* has exactly 2 elements, removeItem when items has exactly 1 element; above these
\* minimums the operation removes exactly the element at index
C25_RemoveMinimums ==
    [][\A index \in 1..Max({ MaxOptions, MaxItems }) :
        /\ lastOp' = "removeOption" /\ removeOption(index) => RefusesAt(2, "options", index)
        /\ lastOp' = "removePair" /\ removePair(index) => RefusesAt(2, "pairs", index)
        /\ lastOp' = "removeItem" /\ removeItem(index) => RefusesAt(1, "items", index)]_vars

\* The fields of a draft other than the given one, and its set of fields, are the same
SameExcept(before, after, field) ==
    /\ DOMAIN after = DOMAIN before
    /\ \A key \in DOMAIN before \ { field } : after[key] = before[key]

\* C26: after setCorrectOption(i), option i has isCorrect = TRUE and every other
\* option has isCorrect = FALSE; the number of options, their other fields and all
\* other fields of the draft are unchanged
C26_SetCorrectOption ==
    [][\A index \in 1..MaxOptions :
        lastOp' = "setCorrectOption" /\ setCorrectOption(index) =>
            LET before == tempActivity.options
                after  == tempActivity'.options
            IN  /\ Len(after) = Len(before)
                /\ \A k \in 1..Len(after) :
                       /\ after[k].isCorrect = (k = index)
                       /\ SameExcept(before[k], after[k], "isCorrect")
                /\ SameExcept(tempActivity, tempActivity', "options")]_vars

\* The third option of the edited activity has just been marked: the second one, which
\* was the correct one, no longer is, and the texts are as they were
C26_Witness ==
    /\ lastOp = "setCorrectOption"
    /\ Len(tempActivity.options) = 3
    /\ tempActivity.options[3].isCorrect
    /\ ~tempActivity.options[2].isCorrect
    /\ tempActivity.options[2].text = << "y" >>
    /\ tempActivity.options[3].text = << "z" >>

\* The title the type select gives a draft that has none: "New multiple choice
\* activity", "New fill in-blanks activity", "New ordering activity", "New match image
\* activity", "New dialogue activity"
PlaceholderTitle(newType) ==
    CASE newType = "multiple-choice" ->
            << "N", "e", "w", " ", "m", "u", "l", "t", "i", "p", "l", "e", " ",
               "c", "h", "o", "i", "c", "e", " ", "a", "c", "t", "i",
               "v", "i", "t", "y" >>
      [] newType = "fill-in-blanks" ->
            << "N", "e", "w", " ", "f", "i", "l", "l", " ", "i", "n", "-", "b",
               "l", "a", "n", "k", "s", " ", "a", "c", "t", "i", "v",
               "i", "t", "y" >>
      [] newType = "ordering" ->
            << "N", "e", "w", " ", "o", "r", "d", "e", "r", "i", "n", "g", " ",
               "a", "c", "t", "i", "v", "i", "t", "y" >>
      [] newType = "match-image" ->
            << "N", "e", "w", " ", "m", "a", "t", "c", "h", " ", "i", "m", "a",
               "g", "e", " ", "a", "c", "t", "i", "v", "i", "t",
               "y" >>
      [] newType = "dialogue" ->
            << "N", "e", "w", " ", "d", "i", "a", "l", "o", "g", "u", "e", " ",
               "a", "c", "t", "i", "v", "i", "t", "y" >>

\* The draft after a type change, given the title it is to have
TypeChangeGives(newType, title) ==
    /\ tempActivity'.type = newType
    /\ tempActivity'.id = tempActivity.id
    /\ tempActivity'.title = title
    /\ DOMAIN tempActivity' = DOMAIN initialActivityData
    /\ \A key \in DOMAIN initialActivityData \ { "type", "id", "title" } :
           tempActivity'[key] = initialActivityData[key]

\* C27: changeType(newType) gives a draft of type newType with the id of the previous
\* draft, with the previous title when it was set, and with every other field, the
\* title when it was not set included, as in the default activity
C27_TypeChangeDefaults ==
    [][\A newType \in ActivityTypes :
        lastOp' = "handleTypeChange" /\ handleTypeChange(newType) =>
            TypeChangeGives(newType, IF tempActivity.title # <<>>
                                     THEN tempActivity.title
                                     ELSE initialActivityData.title)]_vars

\* C27, amended: as above, but a draft without a title gets the title "New <type>
\* activity", with the first hyphen of the type replaced by a space
C27_TypeChangeTitle ==
    [][\A newType \in ActivityTypes :
        lastOp' = "handleTypeChange" /\ handleTypeChange(newType) =>
            TypeChangeGives(newType, IF tempActivity.title # <<>>
                                     THEN tempActivity.title
                                     ELSE PlaceholderTitle(newType))]_vars

\* A draft without a title has just been made a fill-in-blanks draft
C27_Witness ==
    /\ lastOp = "handleTypeChange"
    /\ tempActivity.type = "fill-in-blanks"
    /\ tempActivity.title = PlaceholderTitle("fill-in-blanks")
    /\ tempActivity.options = initialActivityData.options

\* The upload changes nothing but the audioFile of the element it was started for,
\* which becomes its file
OnlyAudioFile(upload, before, after) ==
    /\ SameExcept(before, after, upload.field)
    /\ IF upload.elementIndex = NoIndex
       THEN /\ SameExcept(before[upload.field], after[upload.field], "audioFile")
            /\ after[upload.field].audioFile = upload.file
       ELSE /\ upload.elementIndex \in 1..Len(before[upload.field])
            /\ Len(after[upload.field]) = Len(before[upload.field])
            /\ \A k \in 1..Len(before[upload.field]) :
                   IF k = upload.elementIndex
                   THEN /\ SameExcept(before[upload.field][k], after[upload.field][k],
                                      "audioFile")
                        /\ after[upload.field][k].audioFile = upload.file
                   ELSE after[upload.field][k] = before[upload.field][k]

\* C28: when an attachAudio resolves, the edits made to the draft since its start are
\* all kept: the resolution changes only the audioFile of its target element, which
\* then holds the file of the attach that resolved last
C28_ResolutionKeepsEdits ==
    [][lastOp' = "resolveAudio" /\ resolveAudio =>
        OnlyAudioFile(Head(pending), tempActivity, tempActivity')]_vars

\* C29: from editActivity, or the start of a new draft, on, no draft operation (field
\* edit, add or remove element, setCorrectOption, changeType, resolution of an
\* attachAudio, Cancel Edit) changes the activities of the lesson or the store
C29_DraftLeavesLesson ==
    [][/\ lessonState'.activities = lessonState.activities
       /\ store' = store]_vars

\* The first option of the draft of the edited activity has been retyped, and the
\* lesson and the store hold its authored text
C29_Witness ==
    /\ isEditingActivity
    /\ lastOp = "setElementText"
    /\ tempActivity.id = lessonState.activities[1].id
    /\ tempActivity.options[1].text = << "t" >>
    /\ lessonState.activities[1].options[1].text = << "x" >>
    /\ store[1].activities[1].options[1].text = << "x" >>

-----------------------------------------------------------------------------
(* Properties of the dashboard *)

\* C22: saveActivity on a draft for which validateActivity returns a non-empty list
\* dispatches nothing: the lesson state and the store are unchanged, the draft and the
\* editing flag are kept, and the errors returned become validationErrors
C22_FailedSaveKeepsState ==
    [][lastOp' = "saveActivity" /\ Len(validateActivity(tempActivity)) > 0 /\ saveActivity =>
        /\ lessonState' = lessonState
        /\ lastAction' = lastAction
        /\ store' = store
        /\ tempActivity' = tempActivity
        /\ isEditingActivity' = isEditingActivity
        /\ validationErrors' = validateActivity(tempActivity)]_vars

\* The save of the draft of an edited activity has just been refused
C22_Witness ==
    /\ lastOp = "saveActivity"
    /\ Len(validationErrors) > 0
    /\ isEditingActivity
    /\ Len(lessonState.activities) > 0
    /\ tempActivity.id = lessonState.activities[1].id
    /\ tempActivity # lessonState.activities[1]

\* The positions of the entries of the stored list with the given id
EntriesOf(lessons, id) == { k \in 1..Len(lessons) : lessons[k].id = id }

\* C23: whenever a change of the lesson state leaves the lesson with at least one
\* activity, the store then holds exactly one entry with the id of the lesson, equal
\* to the lesson in memory; the entries with other ids are unchanged, and the same
\* upsert once more leaves the store unchanged
C23_UpsertEqualsLesson ==
    [][lessonState' # lessonState /\ Len(lessonState'.activities) > 0 =>
        /\ Cardinality(EntriesOf(store', lessonState'.id)) = 1
        /\ \A k \in EntriesOf(store', lessonState'.id) : store'[k] = lessonState'
        /\ Len(store') \in { Len(store), Len(store) + 1 }
        /\ \A k \in 1..Len(store) : store[k].id # lessonState'.id => store'[k] = store[k]
        /\ \A k \in 1..Len(store') : k > Len(store) => store'[k].id = lessonState'.id
        /\ Persisted(store', lessonState') = store']_vars

\* C30: under the controls of the dashboard currentView changes only from list to
\* setup (by RESET_LESSON or LOAD_LESSON), from setup to list, from setup to builder and
\* from builder to setup, and ADD_ACTIVITY, UPDATE_ACTIVITY and DELETE_ACTIVITY are
\* dispatched only while currentView is builder
C30_ViewTransitions ==
    [][LET from == lessonState.currentView
           to   == lessonState'.currentView
       IN  /\ from # to =>
                << from, to >> \in { << "list", "setup" >>, << "setup", "list" >>,
                                    << "setup", "builder" >>, << "builder", "setup" >> }
           /\ from = "list" /\ to # "list" => lastAction' \in { "RESET_LESSON", "LOAD_LESSON" }
           /\ lastAction' \in { "ADD_ACTIVITY", "UPDATE_ACTIVITY", "DELETE_ACTIVITY" } =>
                from = "builder"]_vars

\* Back in the list after a new lesson was created, given an activity in the builder
\* and left through the setup view
C30_Witness ==
    /\ InView("list")
    /\ lastAction = "SET_VIEW"
    /\ Len(store) = 2
    /\ lessonState.id # PastTime
    /\ Len(lessonState.activities) > 0

-----------------------------------------------------------------------------
(* Properties of the lesson's time stamp and of the ids *)

\* C31: for a given lesson id, updatedAt never decreases over a step of the reducer
\* with its effect, while the clock does not go back: neither in the lesson in memory
\* nor in the store's entry with that id
C31_UpdatedAtMonotonic ==
    [][/\ lessonState'.id = lessonState.id => lessonState'.updatedAt >= lessonState.updatedAt
       /\ \A j \in 1..Len(store), k \in 1..Len(store') :
              store'[k].id = store[j].id => store'[k].updatedAt >= store[j].updatedAt]_vars

\* C32: the activities of the lesson have pairwise distinct ids in every reachable
\* state, also after two ADD_ACTIVITY that read the same clock value
C32_DistinctActivityIds ==
    \A j, k \in 1..Len(lessonState.activities) :
        lessonState.activities[j].id = lessonState.activities[k].id => j = k

-----------------------------------------------------------------------------
(* Properties of the draft, the lesson and the store under interleavings *)

\* opt.text.trim() is called on every option of a multiple-choice draft and throws a
\* TypeError on an option that has no text
ValidatorThrows(draft) ==
    /\ draft.type = "multiple-choice"
    /\ \E k \in 1..Len(draft.options) : "text" \notin DOMAIN draft.options[k]

\* C33: the resolution of an attachAudio changes nothing but the element it was
\* started for: it never changes the length of options, items or pairs, it creates no
\* element without a text, and validateActivity does not throw on the draft it leaves
C33_ResolutionKeepsShape ==
    [][lastOp' = "resolveAudio" /\ resolveAudio =>
        /\ \A field \in { "options", "items", "pairs" } :
              /\ Len(tempActivity'[field]) = Len(tempActivity[field])
              /\ \A k \in 1..Len(tempActivity'[field]) :
                     "text" \in DOMAIN tempActivity'[field][k]
        /\ ~ValidatorThrows(tempActivity')]_vars

\* C39: in every state reached through the dashboard's controls every activity of the
\* lesson passes validateActivity: activities enter or change through saveActivity
\* after validation or through LOAD_LESSON of a persisted lesson, and leave through
\* DELETE_ACTIVITY
C39_ActivitiesValid ==
    \A k \in 1..Len(lessonState.activities) :
        validateActivity(lessonState.activities[k]) = <<>>

\* A draft has been saved as the second activity of the stored lesson, which had been
\* loaded from the store
C39_Witness ==
    /\ lastOp = "saveActivity"
    /\ lastAction = "ADD_ACTIVITY"
    /\ lessonState.id = PastTime
    /\ Len(lessonState.activities) = 2
    /\ lessonState.activities[2].question.text = BlankSentence

\* The two activities are equal in every field but the id
SameContent(activity, draft) == [activity EXCEPT !.id = draft.id] = draft

\* C34: a saveActivity that passes validation is never lost: right after it the lesson
\* has an activity whose content is the saved draft, whatever editActivity,
\* deleteActivity, RESET_LESSON, LOAD_LESSON and view changes came before the save
C34_SaveNeverLost ==
    [][lastOp' = "saveActivity" /\ saveActivity /\ Len(validateActivity(tempActivity)) = 0 =>
        \E k \in 1..Len(lessonState'.activities) :
            SameContent(lessonState'.activities[k], tempActivity)]_vars

-----------------------------------------------------------------------------
(* Properties of the quiz as the learner meets it *)

\* C35: the quiz never gets stuck: from every state before the completion state the
\* learner's actions lead to an enabled Check.  On a fill-in-blanks step Check is
\* enabled when every blank holds a word, and no action adds a word, so in every state
\* of such a step the words in the pool and in the blanks are enough for the blanks,
\* also when the activity's pool has fewer words than the template has blanks
C35_NeverStuck ==
    Mounted /\ IsType("fill-in-blanks") /\ ~isAnswered =>
        Len(availableWords) + Cardinality(DOMAIN blanksState) >= Len(blankParts)

\* C37: on a multiple-choice or match-image step the Check control is enabled only
\* after the learner has selected an answer, so check() is not triggered on such a
\* step while selectedAnswer is null
C37_CheckNeedsSelection ==
    ( /\ Mounted
      /\ IsType("multiple-choice") \/ IsType("match-image")
      /\ ~isAnswered
      /\ CheckEnabled )
    => selectedAnswer # Null

\* The number of blanks that hold the word w
HeldCount(w) == Cardinality({ b \in DOMAIN blanksState : blanksState[b] = w })

\* C38: on a fill-in-blanks step, in every state reached by tapWord and tapBlank, the
\* words of availableWords together with the words held by the blanks are the words of
\* the step's pool, each as often as the pool has it, also when the pool has a word
\* more than once
C38_WordConservation ==
    Mounted /\ IsType("fill-in-blanks") /\ ~isAnswered =>
        \A w \in Words :
            CountIn(availableWords, w) + HeldCount(w) = CountIn(currentContent.wordPool, w)

\* C36: every fill-in-blanks activity that validateActivity accepts is answerable with
\* the word pool taken from its wordBlocks as authored: every correct word of the
\* template is among the wordBlocks
C36_Answerable ==
    ( /\ pc = "output"
      /\ tempActivity.type = "fill-in-blanks"
      /\ validationErrors = <<>> )
    => LET correctWords == parseFillInBlanks(tempActivity.question.text).correctWords
       IN  \A k \in 1..Len(correctWords) :
               \E j \in 1..Len(tempActivity.wordBlocks) :
                   tempActivity.wordBlocks[j] = correctWords[k]

\* C40: the store never lags the lesson in memory: once the persistence effect has run
\* for a change of the lesson state, the store's entry with the id of the lesson, if
\* there is one, equals the lesson in memory, also after a DELETE_ACTIVITY that removes
\* the lesson's last activity
C40_StoreNeverLags ==
    [][lessonState' # lessonState =>
        \A k \in EntriesOf(store', lessonState'.id) : store'[k] = lessonState']_vars

====
